---- MODULE Spec2Model ----
(***************************************************************************)
(* thinkube-cicd-monitor: the pipeline reconciler (PipelineMonitor), the   *)
(* reconnecting push channels (WebSocketManager, EventStream), the         *)
(* transport client (ControlHubAPI), the tree view (PipelineTreeProvider)  *)
(* and the life cycle of the extension (activate, disposal).               *)
(*                                                                         *)
(* The components own disjoint state, so each has its own next-state       *)
(* relation over the shared variable tuple; the life cycle of the          *)
(* extension drives the WebSocketManager it creates. All specifications    *)
(* start in Init, the state after construction.                            *)
(***************************************************************************)
EXTENDS Integers, Sequences, FiniteSets, TLC

VARIABLES
    pipelineCache,  \* PipelineMonitor.pipelineCache, in Map insertion order
    ret,            \* the latest PipelineMonitor call and the value it returned
    addCalls,       \* the addEvent calls in call order: the event, and whether
                    \* the call awaits its cluster lookup, has pushed the
                    \* event, or has dropped it
    isActive,       \* WebSocketManager.isActive
    wsSockets,      \* WebSocketManager: the sockets not yet closed, oldest first;
                    \* registered = the socket is the entry of websockets for
                    \* its pipeline (or is globalWebSocket)
    wsTimers,       \* WebSocketManager: reconnect timers that are pending or
                    \* still held in reconnectTimers / globalReconnectTimer
    wsEmits,        \* number of 'pipelineEvent' emissions
    treeRefreshes,  \* pipelineProvider.refresh() calls of the event listener
    notifications,  \* messages shown by the event listener
    wsNotice,       \* the message the listener showed on its last call
    wsConsoleError, \* WebSocketManager: the latest console.error line
    wsCloseCode,    \* history: the code of the latest close event (0: none)
    wsOwed,         \* history: per target, "owed" from a close event with a
                    \* code other than 1000 received while active until a
                    \* connection attempt, disconnect() or
                    \* stopTrackingPipeline for the target; "superseded"
                    \* once an open event has cancelled the last pending timer
    wsTracking,     \* history: per pipeline ID, whether trackPipeline or
                    \* stopTrackingPipeline was called last
    esWs,           \* EventStream: the sockets not yet closed, oldest first;
                    \* current = the socket is this.ws
    reconnectTimeout,   \* EventStream.reconnectTimeout and its timer
    reconnectAttempts,  \* EventStream.reconnectAttempts
    esWanted,       \* history: connect() was called and disconnect() not since
    esEmits,        \* number of 'pipeline-event' emissions
    esShown,        \* number of showErrorMessage calls
    esConsoleError, \* EventStream: the latest console.error line
    esUncaught,     \* an exception left a socket handler of EventStream
    esFailures,     \* history: close events and failed socket constructions
                    \* of the EventStream since the latest open event
    backend,        \* what the backend answers on /health and on /pipelines
    tcPc,           \* ControlHubAPI.testConnection: the request it awaits
    tcResult,       \* ControlHubAPI.testConnection: the boolean it resolved to
    apiRet,         \* the latest ControlHubAPI request method that settled:
                    \* the answer it got and what it returned or threw
    extState,       \* the extension: inactive, active, or disposed
    refreshTimer,   \* the setInterval timer of activate()
    refreshTicks,   \* refresh() calls made by the interval callback
    timerTicks,     \* runs of the interval callback
    tpVisible,      \* PipelineTreeProvider.visible
    loading,        \* PipelineTreeProvider.loading
    treePipelines,  \* PipelineTreeProvider.pipelines
    tpFetches,      \* PipelineTreeProvider: listPipelines calls not yet settled
    tpPending,      \* history: those calls in the order they were started,
                    \* each with whether a call started later has settled
    tpLastSettle,   \* history: whether the call that settled last had been
                    \* overtaken by a call started later
    tpListed,       \* history: the pipelines of the response body that
                    \* this.pipelines was built from
    expandedPipelines,  \* PipelineTreeProvider.expandedPipelines
    tpExpansions,   \* per pipeline ID, the loadPipelineStages calls made
    pipelineExpanded,   \* per pipeline ID, the 'pipelineExpanded' emissions
                    \* of loadPipelineStages and of the trackExpanded command
    tpCache,        \* PipelineTreeProvider.pipelineCache: the IDs it holds
    tpStageFetches, \* per pipeline ID, getPipeline calls not yet settled
    timeline,       \* PipelineTimelinePanel: the stages of the latest
                    \* _generateCustomTimeline call and the bars it drew
    k8sRequest,     \* K8sClient.watchConfigMaps: the request of the owner's
                    \* call, which its cleanup function holds
    k8sRewatches,   \* watches established by re-watch timers and still active
    k8sTimers,      \* re-watch timers that are pending
    k8sCleanup,     \* whether the cleanup function was returned, and called
    k8sEnded,       \* number of calls of the done callback
    apiToken,       \* the apiToken setting of thinkube-cicd
    sent            \* the requests sent, HTTP and WebSocket, oldest first

monVars == <<pipelineCache, ret, addCalls>>
wsVars == <<isActive, wsSockets, wsTimers, wsEmits, treeRefreshes, notifications,
           wsNotice,
           wsConsoleError, wsTracking, wsCloseCode, wsOwed>>
esVars == <<esWs, reconnectTimeout, reconnectAttempts, esWanted, esEmits, esShown,
           esConsoleError, esFailures, esUncaught>>

apiVars == <<backend, tcPc, tcResult, apiRet>>

extVars == <<extState, refreshTimer, refreshTicks, timerTicks, tpVisible>>
listVars == <<loading, treePipelines, tpFetches, tpListed, tpPending, tpLastSettle>>
expandVars == <<expandedPipelines, tpExpansions, pipelineExpanded, tpCache,
               tpStageFetches>>
treeVars == <<listVars, expandVars>>
panelVars == <<timeline>>
k8sVars == <<k8sRequest, k8sRewatches, k8sTimers, k8sCleanup, k8sEnded>>
authVars == <<apiToken, sent>>

\* the state a component does not own
notMon == <<wsVars, esVars, apiVars, extVars, treeVars, panelVars, k8sVars,
            authVars>>
notWs == <<monVars, esVars, apiVars, extVars, treeVars, panelVars, k8sVars,
            authVars>>
notEs == <<monVars, wsVars, apiVars, extVars, treeVars, panelVars, k8sVars,
            authVars>>
notApi == <<monVars, wsVars, esVars, extVars, treeVars, panelVars, k8sVars,
            authVars>>
notTree == <<monVars, wsVars, esVars, apiVars, extVars, panelVars, k8sVars,
            authVars>>
notPanel == <<monVars, wsVars, esVars, apiVars, extVars, treeVars, k8sVars,
             authVars>>
notK8s == <<monVars, wsVars, esVars, apiVars, extVars, treeVars, panelVars,
           authVars>>
notAuth == <<monVars, wsVars, esVars, apiVars, extVars, treeVars, panelVars,
            k8sVars>>

(***************************************************************************)
(* Optional values (endTime?: number): <<>> is undefined, <<x>> is x.      *)
(***************************************************************************)
None == <<>>
Some(x) == <<x>>

\* Bounds
MaxEvents == 2
MaxLimit == 3
MaxSockets == 2
MaxEmits == 1
MaxTimers == 2
MaxShown == 1
MaxListed == 2
MaxTicks == 1
MaxFetches == 2
MaxExpansions == 2
MaxCommands == 1
MaxStages == 2
MaxCalls == 2
MaxEnded == 2
MaxGaps == 2
MaxSent == 2

(***************************************************************************)
(* PipelineMonitor                                                         *)
(***************************************************************************)

\* variant: only the most recent event is inspected for a failure
calculatePipelineStatus_LastOnly(events) ==
    IF Len(events) = 0 THEN "pending"
    ELSE IF events[Len(events)].status = "failed" THEN "failed"
    ELSE IF events[Len(events)].eventType = "DEPLOY_COMPLETE" THEN "success"
    ELSE "running"

\* variant: completion is tested before failure
calculatePipelineStatus_CompleteFirst(events) ==
    IF Len(events) = 0 THEN "pending"
    ELSE IF events[Len(events)].eventType = "DEPLOY_COMPLETE" THEN "success"
    ELSE IF \E i \in DOMAIN events : events[i].status = "failed" THEN "failed"
    ELSE "running"

\* calculatePipelineStatus(events); PipelineStatus.Success is written "success"
calculatePipelineStatus(events) ==
    IF Len(events) = 0 THEN "pending"
    ELSE IF \E i \in DOMAIN events : events[i].status = "failed" THEN "failed"
    ELSE IF events[Len(events)].eventType = "DEPLOY_COMPLETE" THEN "success"
    ELSE "running"

\* isTerminalEvent(eventType)
isTerminalEvent(eventType) ==
    eventType \in {"DEPLOY_COMPLETE", "DEPLOY_TIMEOUT", "WORKFLOW_FAILED",
                   "BUILD_FAILED", "SYNC_FAILED"}

\* pipelineCache.has(id) / pipelineCache.get(id)
CacheHas(cache, id) == \E i \in DOMAIN cache : cache[i].id = id
CacheIndex(cache, id) == CHOOSE i \in DOMAIN cache : cache[i].id = id
CacheGet(cache, id) == cache[CacheIndex(cache, id)]

\* pipelineCache.set(id, pipeline): a known key keeps its position
CacheSet(cache, pipeline) ==
    IF CacheHas(cache, pipeline.id)
    THEN [cache EXCEPT ![CacheIndex(cache, pipeline.id)] = pipeline]
    ELSE Append(cache, pipeline)

\* the end time recorded for a terminal event
TerminalEnd(pipeline, event) ==
    [pipeline EXCEPT !.endTime = Some(event.timestamp),
                     !.duration = Some(event.timestamp - pipeline.startTime)]

\* updatePipelineFromConfigMap(configMap): a ConfigMap without parseable
\* events.json is skipped; a payload without an events array throws inside
\* calculatePipelineStatus and is swallowed by the catch.
PipelineOfConfigMap(cm) ==
    LET p == [id |-> cm.pipelineId, appName |-> cm.appName,
              startTime |-> cm.startTime, events |-> cm.events,
              status |-> calculatePipelineStatus(cm.events),
              endTime |-> None, duration |-> None]
    IN  IF Len(cm.events) > 0 /\ isTerminalEvent(cm.events[Len(cm.events)].eventType)
        THEN TerminalEnd(p, cm.events[Len(cm.events)])
        ELSE p

\* variant: a pipeline that is already cached is left as it is
updatePipelineFromConfigMap_KeepExisting(cache, cm) ==
    IF cm.valid /\ cm.hasEvents /\ ~CacheHas(cache, cm.pipelineId)
    THEN CacheSet(cache, PipelineOfConfigMap(cm))
    ELSE cache

updatePipelineFromConfigMap(cache, cm) ==
    IF cm.valid /\ cm.hasEvents
    THEN CacheSet(cache, PipelineOfConfigMap(cm))
    ELSE cache

RECURSIVE IngestAll(_, _)
IngestAll(cache, cms) ==
    IF cms = <<>> THEN cache
    ELSE IngestAll(updatePipelineFromConfigMap(cache, Head(cms)), Tail(cms))

\* variant: a miss that finds no ConfigMap caches an empty pipeline
GetPipelineCache_Placeholder(cache, pipelineId, found) ==
    IF CacheHas(cache, pipelineId) THEN cache
    ELSE IF Len(found) > 0 THEN updatePipelineFromConfigMap(cache, found[1])
    ELSE Append(cache, [id |-> pipelineId, appName |-> "web", startTime |-> 1000,
                        events |-> <<>>, status |-> "pending",
                        endTime |-> None, duration |-> None])

\* getPipeline(pipelineId): the cache after the lookup; on a miss the first
\* ConfigMap of the label query (found) is ingested.
GetPipelineCache(cache, pipelineId, found) ==
    IF CacheHas(cache, pipelineId) THEN cache
    ELSE IF Len(found) > 0 THEN updatePipelineFromConfigMap(cache, found[1])
    ELSE cache

\* variant: the status is not recomputed after the push
PushEvent_StaleStatus(pipeline, event) ==
    LET p1 == [pipeline EXCEPT !.events = Append(pipeline.events, event)]
    IN  IF isTerminalEvent(event.eventType) THEN TerminalEnd(p1, event) ELSE p1

\* the body of addEvent once the pipeline is found
PushEvent(pipeline, event) ==
    LET evs == Append(pipeline.events, event)
        p1 == [pipeline EXCEPT !.events = evs,
                               !.status = calculatePipelineStatus(evs)]
    IN  IF isTerminalEvent(event.eventType) THEN TerminalEnd(p1, event) ELSE p1

\* addEvent(event)
addEvent(cache, event, found) ==
    LET c1 == GetPipelineCache(cache, event.pipelineId, found)
    IN  IF CacheHas(c1, event.pipelineId)
        THEN CacheSet(c1, PushEvent(CacheGet(c1, event.pipelineId), event))
        ELSE c1

(***************************************************************************)
(* Inputs of the event-path specification: one pipeline followed in depth  *)
(***************************************************************************)
EventTypes == {"BUILD_START", "DEPLOY_COMPLETE", "BUILD_FAILED"}
EventStatuses == {"failed", "success", "undefined"}
Timestamps == {1050, 1100}
PipelineEvents(ids) ==
    [pipelineId : ids, eventType : EventTypes, status : EventStatuses,
     timestamp : Timestamps]

NoConfigMap == [valid |-> FALSE, hasEvents |-> FALSE, pipelineId |-> "p1",
                appName |-> "web", startTime |-> 1000, events |-> <<>>]
ConfigMapOf(id, app, start, evs) ==
    [valid |-> TRUE, hasEvents |-> TRUE, pipelineId |-> id, appName |-> app,
     startTime |-> start, events |-> evs]

DeepConfigMaps ==
    {NoConfigMap, [NoConfigMap EXCEPT !.valid = TRUE]}
    \cup {ConfigMapOf("p1", "web", 1000, evs) :
            evs \in {<<>>} \cup {<<e>> : e \in PipelineEvents({"p1"})}}

\* getConfigMaps(..., pipeline=<id>): the cluster holds ConfigMaps of p1 only
ClusterLookup(id) ==
    IF id = "p1"
    THEN {<<>>, <<NoConfigMap>>, <<ConfigMapOf("p1", "web", 1000, <<>>)>>}
    ELSE {<<>>}

MonInit ==
    /\ pipelineCache = <<>>
    /\ ret = [op |-> "none"]
    /\ addCalls = <<>>

\* the watcher delivers ADDED / MODIFIED / DELETED for a ConfigMap
WatchEvent(type, cm) ==
    /\ pipelineCache' = IF type \in {"ADDED", "MODIFIED"}
                        THEN updatePipelineFromConfigMap(pipelineCache, cm)
                        ELSE pipelineCache
    /\ ret' = [op |-> "watch", type |-> type, cm |-> cm]
    /\ UNCHANGED addCalls
    /\ UNCHANGED notMon

AddEvent(event, found) ==
    /\ \A i \in DOMAIN pipelineCache :
          pipelineCache[i].id = event.pipelineId
             => Len(pipelineCache[i].events) < MaxEvents
    /\ pipelineCache' = addEvent(pipelineCache, event, found)
    /\ ret' = [op |-> "addEvent", pipelineId |-> event.pipelineId,
               found |-> Len(found) > 0]
    /\ UNCHANGED addCalls
    /\ UNCHANGED notMon

MonNext ==
    \/ \E type \in {"ADDED", "MODIFIED", "DELETED"}, cm \in DeepConfigMaps :
          WatchEvent(type, cm)
    \/ \E event \in PipelineEvents({"p1", "p2"}) :
          \E found \in ClusterLookup(event.pipelineId) : AddEvent(event, found)

(***************************************************************************)
(* addEvent with its await: on a cache hit getPipeline resolves without    *)
(* I/O and the push follows before any other callback runs; on a miss the  *)
(* call awaits getConfigMaps, and the lookups of concurrent calls settle   *)
(* in any order.                                                           *)
(***************************************************************************)
\* getPipeline after its await: the first ConfigMap found is ingested
\* without looking at the cache again
CacheAfterLookup(cache, found) ==
    IF Len(found) > 0 THEN updatePipelineFromConfigMap(cache, found[1]) ELSE cache

\* whether getPipeline then returns a pipeline rather than null
LookupReturns(cache, pipelineId, found) ==
    Len(found) > 0 /\ CacheHas(CacheAfterLookup(cache, found), pipelineId)

\* the rest of addEvent once the lookup has settled
addEventAfterLookup(cache, event, found) ==
    LET c1 == CacheAfterLookup(cache, found)
    IN  IF LookupReturns(cache, event.pipelineId, found)
        THEN CacheSet(c1, PushEvent(CacheGet(c1, event.pipelineId), event))
        ELSE c1

\* addEvent(event) is called with an event not passed before
AddEventCalled(event) ==
    /\ Len(addCalls) < MaxCalls
    /\ \A k \in DOMAIN addCalls : addCalls[k].event # event
    /\ IF CacheHas(pipelineCache, event.pipelineId)
       THEN /\ pipelineCache' = addEvent(pipelineCache, event, <<>>)
            /\ addCalls' = Append(addCalls, [event |-> event, state |-> "pushed"])
            /\ ret' = [op |-> "addEvent", pipelineId |-> event.pipelineId,
                       found |-> FALSE]
       ELSE /\ addCalls' = Append(addCalls, [event |-> event, state |-> "awaiting"])
            /\ UNCHANGED <<pipelineCache, ret>>
    /\ UNCHANGED notMon

\* the getConfigMaps request of the k-th call settles
AddEventLookupSettles(k, found) ==
    /\ addCalls[k].state = "awaiting"
    /\ pipelineCache' = addEventAfterLookup(pipelineCache, addCalls[k].event, found)
    /\ addCalls' =
          [addCalls EXCEPT ![k].state =
              IF LookupReturns(pipelineCache, addCalls[k].event.pipelineId, found)
              THEN "pushed" ELSE "dropped"]
    /\ ret' = [op |-> "addEvent", pipelineId |-> addCalls[k].event.pipelineId,
               found |-> Len(found) > 0]
    /\ UNCHANGED notMon

AsyncNext ==
    \/ \E event \in PipelineEvents({"p1"}) : AddEventCalled(event)
    \/ \E k \in DOMAIN addCalls :
          \E found \in ClusterLookup(addCalls[k].event.pipelineId) :
              AddEventLookupSettles(k, found)

(***************************************************************************)
(* PipelineMonitor.analyzePipeline                                         *)
(***************************************************************************)
\* eventDurations[stage] = duration: a known key keeps its place and takes
\* the new value, a new key is appended (Object.entries order)
SetDuration(durations, stage, duration) ==
    IF \E k \in DOMAIN durations : durations[k].stage = stage
    THEN [k \in DOMAIN durations |->
            IF durations[k].stage = stage
            THEN [stage |-> stage, duration |-> duration] ELSE durations[k]]
    ELSE Append(durations, [stage |-> stage, duration |-> duration])

\* the loop for (i = 1; i < events.length; i++), from index i on
RECURSIVE EventDurations(_, _, _)
EventDurations(events, i, durations) ==
    IF i > Len(events) THEN durations
    ELSE EventDurations(events, i + 1,
            SetDuration(durations, events[i - 1].eventType,
                        events[i].timestamp - events[i - 1].timestamp))

\* the bottlenecks pushed while walking Object.entries(eventDurations)
Bottlenecks(events) ==
    LET slow == SelectSeq(EventDurations(events, 2, <<>>),
                          LAMBDA e : e.duration > 120000)
    IN  [k \in DOMAIN slow |->
            [stage |-> slow[k].stage, duration |-> slow[k].duration,
             impact |-> IF slow[k].duration > 300000 THEN "high" ELSE "medium"]]

\* the failures pushed for the events of status 'failed'
Failures(events) ==
    LET failed == SelectSeq(events, LAMBDA e : e.status = "failed")
    IN  [k \in DOMAIN failed |-> [stage |-> failed[k].eventType, impact |-> "high"]]

\* the analysis object analyzePipeline returns for a pipeline
analyzePipeline(pipeline) ==
    LET bottlenecks == Bottlenecks(pipeline.events)
        failures == Failures(pipeline.events)
    IN  [pipelineId |-> pipeline.id,
         bottlenecks |-> bottlenecks,
         failures |-> failures,
         suggestions |-> (IF Len(bottlenecks) > 0 THEN {"optimize"} ELSE {})
                         \cup (IF Len(failures) > 0 THEN {"reliability"} ELSE {}),
         summary |-> CASE pipeline.status = "success" -> "completed"
                       [] pipeline.status = "failed" -> "failed"
                       [] OTHER -> "running",
         performanceScore |-> 100 - 10 * Len(bottlenecks) - 20 * Len(failures)]

\* the gaps between consecutive events: below the threshold, above it,
\* above the 'high' mark
AnalysisGaps == {60000, 200000, 400000}
AnalysisKinds ==
    {[eventType |-> "BUILD_START", status |-> "success"],
     [eventType |-> "BUILD_FAILED", status |-> "failed"]}
AnalysisEvent(kind, timestamp) ==
    [pipelineId |-> "p1", eventType |-> kind.eventType, status |-> kind.status,
     timestamp |-> timestamp]

\* the event lists with at most n gaps
RECURSIVE AnalysisEventLists(_)
AnalysisEventLists(n) ==
    IF n = 0 THEN {<<>>} \cup {<<AnalysisEvent(k, 1000)>> : k \in AnalysisKinds}
    ELSE LET shorter == AnalysisEventLists(n - 1) IN
         shorter \cup
         {Append(q, AnalysisEvent(k, q[Len(q)].timestamp + g)) :
             q \in {r \in shorter : Len(r) = n},
             k \in AnalysisKinds, g \in AnalysisGaps}

AnalysisConfigMaps ==
    {NoConfigMap}
    \cup {ConfigMapOf("p1", "web", 1000, evs) : evs \in AnalysisEventLists(MaxGaps)}

\* analyzePipeline(pipelineId): getPipeline, then the analysis of what it
\* returned, null when it returned null
AnalyzePipeline(pipelineId, found) ==
    LET c1 == GetPipelineCache(pipelineCache, pipelineId, found) IN
    /\ pipelineCache' = c1
    /\ ret' = [op |-> "analyze", pipelineId |-> pipelineId,
               known |-> CacheHas(pipelineCache, pipelineId) \/ Len(found) > 0,
               events |-> IF CacheHas(c1, pipelineId)
                          THEN CacheGet(c1, pipelineId).events ELSE <<>>,
               result |-> IF CacheHas(c1, pipelineId)
                          THEN Some(analyzePipeline(CacheGet(c1, pipelineId)))
                          ELSE None]
    /\ UNCHANGED addCalls
    /\ UNCHANGED notMon

AnalyzeNext ==
    \/ \E cm \in AnalysisConfigMaps : WatchEvent("ADDED", cm)
    \/ \E pipelineId \in {"p1", "p2"} :
          \E found \in ClusterLookup(pipelineId) :
              AnalyzePipeline(pipelineId, found)

(***************************************************************************)
(* Queries over the cache                                                  *)
(***************************************************************************)
Min(a, b) == IF a <= b THEN a ELSE b

\* variant: a pipeline is placed before the pipelines of equal startTime
InsertByStartTime_BeforeEqual(sorted, p) ==
    LET k == Cardinality({i \in DOMAIN sorted : sorted[i].startTime > p.startTime})
    IN  SubSeq(sorted, 1, k) \o <<p>> \o SubSeq(sorted, k + 1, Len(sorted))

\* one insertion of the stable sort with comparator b.startTime - a.startTime
InsertByStartTime(sorted, p) ==
    LET k == Cardinality({i \in DOMAIN sorted : sorted[i].startTime >= p.startTime})
    IN  SubSeq(sorted, 1, k) \o <<p>> \o SubSeq(sorted, k + 1, Len(sorted))

\* Array.from(values).sort((a, b) => b.startTime - a.startTime)
RECURSIVE SortPrefix(_, _)
SortPrefix(pipelines, n) ==
    IF n = 0 THEN <<>>
    ELSE InsertByStartTime(SortPrefix(pipelines, n - 1), pipelines[n])

SortByStartTimeDesc(pipelines) == SortPrefix(pipelines, Len(pipelines))

\* .slice(0, limit)
Slice(pipelines, limit) == SubSeq(pipelines, 1, Min(limit, Len(pipelines)))

\* getRecentPipelines(limit) over the cache left by the ingest loop
getRecentPipelines(cache, limit) == Slice(SortByStartTimeDesc(cache), limit)

\* variant: only Running counts as active
IsActiveStatus_RunningOnly(status) == status = "running"

\* p.status === PipelineStatus.Running || p.status === PipelineStatus.Pending
IsActiveStatus(status) == status = "running" \/ status = "pending"

RECURSIVE FilterActive(_)
FilterActive(pipelines) ==
    IF pipelines = <<>> THEN <<>>
    ELSE IF IsActiveStatus(Head(pipelines).status)
         THEN <<Head(pipelines)>> \o FilterActive(Tail(pipelines))
         ELSE FilterActive(Tail(pipelines))

\* getActivePipelines() over the cache left by the ingest loop
getActivePipelines(cache) == SortByStartTimeDesc(FilterActive(cache))

\* .filter(pred) on a sequence of pipelines
RECURSIVE FilterApp(_, _)
FilterApp(pipelines, appName) ==
    IF pipelines = <<>> THEN <<>>
    ELSE IF Head(pipelines).appName = appName
         THEN <<Head(pipelines)>> \o FilterApp(Tail(pipelines), appName)
         ELSE FilterApp(Tail(pipelines), appName)

\* an IEEE quotient a / b kept exact; den = 0 is NaN (0/0) or Infinity
JsNumber(n) == [num |-> n, den |-> 1]
JsDiv(a, b) == [num |-> a, den |-> b]
JsTimes(q, k) == [num |-> q.num * k, den |-> q.den]
IsFinite(q) == q.den # 0
JsEquals(q, r) == IsFinite(q) /\ IsFinite(r) /\ q.num * r.den = r.num * q.den

\* p.duration used as a condition: undefined and 0 are falsy
Truthy(duration) == duration # None /\ duration # Some(0)

\* durations.reduce((a, b) => a + b, 0) over the pipelines with a duration
RECURSIVE SumDurations(_)
SumDurations(pipelines) ==
    IF pipelines = <<>> THEN 0
    ELSE (IF Truthy(Head(pipelines).duration) THEN Head(pipelines).duration[1] ELSE 0)
         + SumDurations(Tail(pipelines))

\* filter(p => p.status === status).length
CountStatus(pipelines, status) ==
    Cardinality({i \in DOMAIN pipelines : pipelines[i].status = status})

\* filter(p => p.duration).length
CountDurations(pipelines) ==
    Cardinality({i \in DOMAIN pipelines : Truthy(pipelines[i].duration)})

\* variant: the rate is computed without the totalPipelines > 0 test
SuccessRate_Unguarded(successful, total) == JsTimes(JsDiv(successful, total), 100)

\* totalPipelines > 0 ? (successfulPipelines / totalPipelines) * 100 : 0
SuccessRate(successful, total) ==
    IF total > 0 THEN JsTimes(JsDiv(successful, total), 100) ELSE JsNumber(0)

\* durations.length > 0 ? sum / durations.length : 0
AverageDuration(pipelines) ==
    LET n == CountDurations(pipelines)
    IN  IF n > 0 THEN JsDiv(SumDurations(pipelines), n) ELSE JsNumber(0)

\* the reason counted for a failed pipeline: its first failed event's type
\* (the modelled events carry no error text)
FirstFailure(p) ==
    p.events[CHOOSE i \in DOMAIN p.events :
                /\ p.events[i].status = "failed"
                /\ \A j \in 1..(i - 1) : p.events[j].status # "failed"].eventType

FailureReasons(pipelines) ==
    LET failed == {i \in DOMAIN pipelines :
                     /\ pipelines[i].status = "failed"
                     /\ \E j \in DOMAIN pipelines[i].events :
                           pipelines[i].events[j].status = "failed"}
        reasons == {FirstFailure(pipelines[i]) : i \in failed}
    IN  [r \in reasons |->
            Cardinality({i \in failed : FirstFailure(pipelines[i]) = r})]

\* getMetrics(appName, period) over the cache left by getRecentPipelines(1000)
getMetrics(cache, appName) ==
    LET appPipelines == FilterApp(getRecentPipelines(cache, 1000), appName)
        total == Len(appPipelines)
        successful == CountStatus(appPipelines, "success")
    IN  [appName |-> appName,
         totalPipelines |-> total,
         successRate |-> SuccessRate(successful, total),
         averageDuration |-> AverageDuration(appPipelines),
         failureReasons |-> FailureReasons(appPipelines),
         deploymentFrequency |-> total]

(***************************************************************************)
(* Inputs of the query specification: three pipelines of two applications  *)
(***************************************************************************)
WidePipelines == {"p1", "p2", "p3"}
AppOf(id) == IF id = "p3" THEN "api" ELSE "web"
AppNames == {"web", "api"}
StartTimesOf(id) == IF id = "p3" THEN {700} ELSE {500, 700}
WideEvent(type, status, ts) ==
    [pipelineId |-> "p1", eventType |-> type, status |-> status, timestamp |-> ts]
WideEventLists ==
    {<<>>,
     <<WideEvent("BUILD_START", "success", 1050)>>,
     <<WideEvent("DEPLOY_COMPLETE", "success", 700)>>,
     <<WideEvent("BUILD_FAILED", "failed", 1100)>>}
WideConfigMaps ==
    {NoConfigMap}
    \cup UNION {{ConfigMapOf(id, AppOf(id), start, evs) :
                    start \in StartTimesOf(id), evs \in WideEventLists} :
                 id \in WidePipelines}

\* [...activeConfigMaps, ...archivedConfigMaps] as the cluster answers it
ClusterListings ==
    {<<>>, <<NoConfigMap>>}
    \cup {<<ConfigMapOf(id, AppOf(id), 700, <<>>)>> : id \in WidePipelines}

GetRecentPipelines(limit, listed) ==
    /\ pipelineCache' = IngestAll(pipelineCache, listed)
    /\ ret' = [op |-> "getRecentPipelines", limit |-> limit,
               value |-> getRecentPipelines(pipelineCache', limit)]
    /\ UNCHANGED addCalls
    /\ UNCHANGED notMon

GetActivePipelines(listed) ==
    /\ pipelineCache' = IngestAll(pipelineCache, listed)
    /\ ret' = [op |-> "getActivePipelines",
               value |-> getActivePipelines(pipelineCache')]
    /\ UNCHANGED addCalls
    /\ UNCHANGED notMon

GetMetrics(appName, listed) ==
    /\ pipelineCache' = IngestAll(pipelineCache, listed)
    /\ ret' = [op |-> "getMetrics", appName |-> appName,
               value |-> getMetrics(pipelineCache', appName)]
    /\ UNCHANGED addCalls
    /\ UNCHANGED notMon

QueryNext ==
    \/ \E type \in {"ADDED", "MODIFIED", "DELETED"}, cm \in WideConfigMaps :
          WatchEvent(type, cm)
    \/ \E limit \in 0..MaxLimit, listed \in ClusterListings :
          GetRecentPipelines(limit, listed)
    \/ \E appName \in AppNames, listed \in ClusterListings :
          GetMetrics(appName, listed)
    \/ \E listed \in ClusterListings : GetActivePipelines(listed)

(***************************************************************************)
(* WebSocketManager and the 'pipelineEvent' listener of the extension.     *)
(* A closed socket and a timer that is neither pending nor held in a map   *)
(* have no behaviour left and are dropped from wsSockets / wsTimers.       *)
(***************************************************************************)
WsPipelines == {"p1"}
WsTargets == WsPipelines \cup {"global"}
CloseCodes == {1000, 1006}

\* push-channel frames: the text is JSON of an event object, or not JSON
EventPayloads ==
    {[status |-> "failed", eventType |-> "BUILD_FAILED"],
     [status |-> "error", eventType |-> "BUILD_FAILED"],
     [status |-> "success", eventType |-> "undefined"],
     [status |-> "success", eventType |-> "DEPLOY_COMPLETE"],
     [status |-> "undefined", eventType |-> "BUILD_START"]}
Frames == [wellFormed : {TRUE}, body : EventPayloads]
          \cup {[wellFormed |-> FALSE, body |-> [status |-> "undefined", eventType |-> "undefined"]]}

\* JSON.parse(data.toString()): throws on text that is not JSON
JSONParse(data) == [ok |-> data.wellFormed, value |-> data.body]

\* variant: the emit is outside the try block and runs after a parse failure
HandlerEmits_AfterCatch(parsed) == TRUE

\* try { event = JSON.parse(...); emit(...) } catch { console.error(...) }
HandlerEmits(parsed) == parsed.ok

\* console.error('Failed to parse ... message:', error) in the catch
ParseError(parsed, before) == IF parsed.ok THEN before ELSE "parse failed"

RECURSIVE SelectSeq2(_, _)
SelectSeq2(seq, keep) ==
    IF seq = <<>> THEN <<>>
    ELSE IF Len(seq) \in keep
         THEN Append(SelectSeq2(SubSeq(seq, 1, Len(seq) - 1), keep), seq[Len(seq)])
         ELSE SelectSeq2(SubSeq(seq, 1, Len(seq) - 1), keep)

\* new WebSocket(fullUrl, ...): a socket in CONNECTING state
NewSocket(target, via) ==
    [target |-> target, via |-> via, state |-> "connecting", registered |-> FALSE]

\* connectToPipeline(id) / connectToGlobalStream(): the constructor may throw,
\* which the surrounding try/catch only logs
ConnectTo(sockets, target, via, created) ==
    IF created THEN Append(sockets, NewSocket(target, via)) ELSE sockets

\* websockets.has(pipelineId)
WebsocketsHas(sockets, id) ==
    \E i \in DOMAIN sockets : sockets[i].target = id /\ sockets[i].registered

\* websockets.delete(id) / globalWebSocket = null
Unregister(sockets, target) ==
    [i \in DOMAIN sockets |->
        IF sockets[i].target = target
        THEN [sockets[i] EXCEPT !.registered = FALSE] ELSE sockets[i]]

\* ws.close(1000, ...) on the registered socket of a target, then delete
CloseRegistered(sockets, targets) ==
    [i \in DOMAIN sockets |->
        IF sockets[i].target \in targets /\ sockets[i].registered
        THEN [sockets[i] EXCEPT !.registered = FALSE, !.state = "closing"]
        ELSE sockets[i]]

\* clearTimeout(timer) and delete for the timer held for a target
ClearRecorded(timers, targets) ==
    SelectSeq2(timers, {i \in DOMAIN timers :
                          ~(timers[i].target \in targets /\ timers[i].recorded)})

\* reconnectTimers.set(id, timer) / globalReconnectTimer = timer: the handle
\* held before is forgotten, its timer stays pending if it was
RecordTimer(timers, target) ==
    LET kept == {i \in DOMAIN timers :
                   ~(timers[i].target = target /\ timers[i].recorded
                       /\ timers[i].state = "fired")}
        old == [i \in DOMAIN timers |->
                  IF timers[i].target = target
                  THEN [timers[i] EXCEPT !.recorded = FALSE] ELSE timers[i]]
    IN  Append(SelectSeq2(old, kept),
               [target |-> target, state |-> "pending", recorded |-> TRUE])

\* variant: the close code is not looked at
CloseSchedules_AnyCode(active, code) == active
\* if (this.isActive && code !== 1000)
CloseSchedules(active, code) == active /\ code # 1000

\* the pending timers of a target
PendingTimers(timers, target) ==
    {t \in DOMAIN timers : timers[t].target = target /\ timers[t].state = "pending"}

\* history: a connection attempt, disconnect() or stopTrackingPipeline for
\* the targets
Settle(owed, targets) ==
    [t \in WsTargets |-> IF t \in targets THEN "none" ELSE owed[t]]

\* variant: the timer callback reconnects whatever isActive is
TimerReconnects_IgnoringActive(active) == TRUE

\* if (this.isActive) inside the setTimeout callback
TimerReconnects(active) == active

\* variant: an event without eventType is notified as well
ShouldNotify_StatusOnly(event, showNotifications, notificationLevel) ==
    /\ showNotifications
    /\ event.status # "undefined"
    /\ \/ notificationLevel = "all"
       \/ notificationLevel = "failures" /\ event.status \in {"failed", "error"}

\* the listener of setupWebSocket: whether a notification is shown
ShouldNotify(event, showNotifications, notificationLevel) ==
    /\ showNotifications
    /\ event.status # "undefined" /\ event.eventType # "undefined"
    /\ \/ notificationLevel = "all"
       \/ notificationLevel = "failures" /\ event.status \in {"failed", "error"}

\* the listener of setupWebSocket: showErrorMessage, showInformationMessage
\* or no message
NoticeStyle(event, showNotifications, notificationLevel) ==
    IF ~ShouldNotify(event, showNotifications, notificationLevel) THEN "none"
    ELSE IF event.status = "failed" \/ event.status = "error" THEN "error"
    ELSE "information"

WsInit ==
    /\ isActive = TRUE
    /\ wsSockets = <<>>
    /\ wsTimers = <<>>
    /\ wsEmits = 0
    /\ treeRefreshes = 0
    /\ notifications = 0
    /\ wsNotice = "none"
    /\ wsConsoleError = "none"
    /\ wsTracking = [id \in WsPipelines |-> "never"]
    /\ wsCloseCode = 0
    /\ wsOwed = [t \in WsTargets |-> "none"]

WsListenerVars == <<wsEmits, treeRefreshes, notifications, wsNotice>>

\* console.error in the catch of connectToPipeline / connectToGlobalStream
ConnectError(created, before) == IF created THEN before ELSE "connect failed"

\* connect()
WsConnectBody(created) ==
    /\ Len(wsSockets) < MaxSockets
    /\ wsSockets' = ConnectTo(wsSockets, "global", "connect", created)
    /\ wsConsoleError' = ConnectError(created, wsConsoleError)
    /\ wsOwed' = Settle(wsOwed, {"global"})
    /\ UNCHANGED <<isActive, wsTimers, WsListenerVars, wsTracking, wsCloseCode>>

WsConnect(created) ==
    /\ WsConnectBody(created)
    /\ UNCHANGED notWs

\* trackPipeline(pipelineId)
WsTrackPipeline(id, created) ==
    /\ Len(wsSockets) < MaxSockets
    /\ wsSockets' = IF WebsocketsHas(wsSockets, id) THEN wsSockets
                    ELSE ConnectTo(wsSockets, id, "track", created)
    /\ wsConsoleError' = IF WebsocketsHas(wsSockets, id) THEN wsConsoleError
                         ELSE ConnectError(created, wsConsoleError)
    /\ wsTracking' = [wsTracking EXCEPT ![id] = "tracked"]
    /\ wsOwed' = IF WebsocketsHas(wsSockets, id) THEN wsOwed
                  ELSE Settle(wsOwed, {id})
    /\ UNCHANGED <<isActive, wsTimers, WsListenerVars, wsCloseCode>>
    /\ UNCHANGED notWs

\* ws.on('open') of either channel kind
WsOnOpen(s) ==
    /\ wsSockets[s].state = "connecting"
    /\ wsSockets' = [Unregister(wsSockets, wsSockets[s].target) EXCEPT
                        ![s].state = "open", ![s].registered = TRUE]
    /\ wsTimers' = ClearRecorded(wsTimers, {wsSockets[s].target})
    /\ wsOwed' = IF /\ wsOwed[wsSockets[s].target] = "owed"
                     /\ PendingTimers(wsTimers', wsSockets[s].target) = {}
                  THEN [wsOwed EXCEPT ![wsSockets[s].target] = "superseded"]
                  ELSE wsOwed
    /\ UNCHANGED <<isActive, WsListenerVars, wsConsoleError, wsTracking, wsCloseCode>>
    /\ UNCHANGED notWs

\* emit('pipelineEvent', event) with the listener of setupWebSocket attached
EmitPipelineEvent(event, showNotifications, notificationLevel) ==
    /\ wsEmits' = wsEmits + 1
    /\ notifications' =
          IF ShouldNotify(event, showNotifications, notificationLevel)
          THEN notifications + 1 ELSE notifications
    /\ wsNotice' = NoticeStyle(event, showNotifications, notificationLevel)
    /\ treeRefreshes' = treeRefreshes + 1

\* ws.on('message') of either channel kind
WsOnMessage(s, data, showNotifications, notificationLevel) ==
    /\ wsSockets[s].state \in {"open", "closing"}
    /\ IF HandlerEmits(JSONParse(data))
       THEN /\ wsEmits < MaxEmits
            /\ EmitPipelineEvent(JSONParse(data).value, showNotifications,
                                 notificationLevel)
       ELSE UNCHANGED WsListenerVars
    /\ wsConsoleError' = ParseError(JSONParse(data), wsConsoleError)
    /\ UNCHANGED <<isActive, wsSockets, wsTimers, wsTracking, wsCloseCode, wsOwed>>
    /\ UNCHANGED notWs

\* ws.on('error'): logged
WsOnError(s) ==
    /\ s \in DOMAIN wsSockets
    /\ wsConsoleError' = "socket error"
    /\ UNCHANGED <<isActive, wsSockets, wsTimers, WsListenerVars, wsTracking,
                   wsCloseCode, wsOwed>>
    /\ UNCHANGED notWs

\* ws.on('close') of either channel kind
WsOnClose(s, code) ==
    /\ s \in DOMAIN wsSockets
    /\ CloseSchedules(isActive, code) => Len(wsTimers) < MaxTimers
    /\ wsSockets' = SelectSeq2(Unregister(wsSockets, wsSockets[s].target),
                               DOMAIN wsSockets \ {s})
    /\ wsTimers' = IF CloseSchedules(isActive, code)
                   THEN RecordTimer(wsTimers, wsSockets[s].target)
                   ELSE wsTimers
    /\ wsCloseCode' = code
    /\ wsOwed' = IF isActive /\ code # 1000
                  THEN [wsOwed EXCEPT ![wsSockets[s].target] = "owed"]
                  ELSE wsOwed
    /\ UNCHANGED <<isActive, WsListenerVars, wsConsoleError, wsTracking>>
    /\ UNCHANGED notWs

\* the setTimeout callback of a close handler, 5 s later
WsTimerFires(t, created) ==
    /\ wsTimers[t].state = "pending"
    /\ Len(wsSockets) < MaxSockets
    /\ wsTimers' = IF wsTimers[t].recorded
                   THEN [wsTimers EXCEPT ![t].state = "fired"]
                   ELSE SelectSeq2(wsTimers, DOMAIN wsTimers \ {t})
    /\ wsSockets' = IF TimerReconnects(isActive)
                    THEN ConnectTo(wsSockets, wsTimers[t].target, "reconnect", created)
                    ELSE wsSockets
    /\ wsConsoleError' = IF TimerReconnects(isActive)
                         THEN ConnectError(created, wsConsoleError)
                         ELSE wsConsoleError
    /\ wsOwed' = IF TimerReconnects(isActive)
                  THEN Settle(wsOwed, {wsTimers[t].target}) ELSE wsOwed
    /\ UNCHANGED <<isActive, WsListenerVars, wsTracking, wsCloseCode>>
    /\ UNCHANGED notWs

\* disconnect()
WsDisconnectBody ==
    /\ isActive' = FALSE
    /\ wsTimers' = ClearRecorded(wsTimers, WsTargets)
    /\ wsSockets' = CloseRegistered(wsSockets, WsTargets)
    /\ wsOwed' = Settle(wsOwed, WsTargets)
    /\ UNCHANGED <<WsListenerVars, wsConsoleError, wsTracking, wsCloseCode>>

WsDisconnect ==
    /\ WsDisconnectBody
    /\ UNCHANGED notWs

\* stopTrackingPipeline(pipelineId)
WsStopTrackingPipeline(id) ==
    /\ wsSockets' = CloseRegistered(wsSockets, {id})
    /\ wsTimers' = ClearRecorded(wsTimers, {id})
    /\ wsTracking' = [wsTracking EXCEPT ![id] = "stopped"]
    /\ wsOwed' = Settle(wsOwed, {id})
    /\ UNCHANGED <<isActive, WsListenerVars, wsConsoleError, wsCloseCode>>
    /\ UNCHANGED notWs

WsNext ==
    \/ \E created \in BOOLEAN : WsConnect(created)
    \/ \E id \in WsPipelines, created \in BOOLEAN : WsTrackPipeline(id, created)
    \/ \E s \in DOMAIN wsSockets : WsOnOpen(s)
    \/ \E s \in DOMAIN wsSockets, data \in Frames, show \in BOOLEAN,
          level \in {"all", "failures", "none"} :
          WsOnMessage(s, data, show, level)
    \/ \E s \in DOMAIN wsSockets : WsOnError(s)
    \/ \E s \in DOMAIN wsSockets, code \in CloseCodes : WsOnClose(s, code)
    \/ \E t \in DOMAIN wsTimers, created \in BOOLEAN : WsTimerFires(t, created)
    \/ WsDisconnect
    \/ \E id \in WsPipelines : WsStopTrackingPipeline(id)

\* the global stream alone: its frames reach the listener of setupWebSocket
ListenerNext ==
    \/ \E created \in BOOLEAN : WsConnect(created)
    \/ \E s \in DOMAIN wsSockets : WsOnOpen(s)
    \/ \E s \in DOMAIN wsSockets, data \in Frames, show \in BOOLEAN,
          level \in {"all", "failures", "none"} :
          WsOnMessage(s, data, show, level)
    \/ \E s \in DOMAIN wsSockets : WsOnError(s)
    \/ \E s \in DOMAIN wsSockets, code \in CloseCodes : WsOnClose(s, code)

\* the timers run for the same 5 s: the one armed first is due first
OldestTimerFires ==
    \E t \in DOMAIN wsTimers, created \in BOOLEAN :
        /\ \A u \in 1..(t - 1) : wsTimers[u].state # "pending"
        /\ WsTimerFires(t, created)

\* the owner opens a channel while the pending timers can still get a socket
RoomForTimers ==
    Len(wsSockets)
      + Cardinality({t \in DOMAIN wsTimers : wsTimers[t].state = "pending"})
      < MaxSockets

\* the channels without their frames: a pending timer is never held back
WsChannelNext ==
    \/ \E created \in BOOLEAN : RoomForTimers /\ WsConnect(created)
    \/ \E id \in WsPipelines, created \in BOOLEAN :
          RoomForTimers /\ WsTrackPipeline(id, created)
    \/ \E s \in DOMAIN wsSockets : WsOnOpen(s)
    \/ \E s \in DOMAIN wsSockets, code \in CloseCodes : WsOnClose(s, code)
    \/ \E t \in DOMAIN wsTimers, created \in BOOLEAN : WsTimerFires(t, created)
    \/ WsDisconnect
    \/ \E id \in WsPipelines : WsStopTrackingPipeline(id)

(***************************************************************************)
(* EventStream                                                             *)
(***************************************************************************)
MaxReconnectAttempts == 10
ReconnectDelay == 5000

NoTimeout == [state |-> "none", delay |-> 0]

\* variant: the delay grows with every attempt
DelayOfAttempt_Uncapped(attempts) == ReconnectDelay * attempts
\* this.reconnectDelay * Math.min(this.reconnectAttempts, 5)
DelayOfAttempt(attempts) == ReconnectDelay * Min(attempts, 5)

\* variant: the cap is tested with > instead of >=
ScheduleReconnect_OffByOne(timeout, attempts, shown) ==
    IF attempts > MaxReconnectAttempts
    THEN [timeout |-> timeout, attempts |-> attempts, shown |-> shown + 1]
    ELSE [timeout |-> [state |-> "pending",
                       delay |-> DelayOfAttempt(attempts + 1)],
          attempts |-> attempts + 1, shown |-> shown]

\* scheduleReconnect(): [timeout, attempts, shown] afterwards
ScheduleReconnect(timeout, attempts, shown) ==
    IF attempts >= MaxReconnectAttempts
    THEN [timeout |-> timeout, attempts |-> attempts, shown |-> shown + 1]
    ELSE [timeout |-> [state |-> "pending",
                       delay |-> DelayOfAttempt(attempts + 1)],
          attempts |-> attempts + 1, shown |-> shown]

\* this.ws = new WebSocket.WebSocket(wsUrl)
EsNewSocket(sockets, via) ==
    Append([i \in DOMAIN sockets |-> [sockets[i] EXCEPT !.current = FALSE]],
           [via |-> via, state |-> "connecting", current |-> TRUE])

EsInit ==
    /\ esWs = <<>>
    /\ reconnectTimeout = NoTimeout
    /\ reconnectAttempts = 0
    /\ esWanted = FALSE
    /\ esEmits = 0
    /\ esShown = 0
    /\ esConsoleError = "none"
    /\ esFailures = 0
    /\ esUncaught = FALSE

\* the body of connect(): the constructor may throw into the catch
EsConnectBody(timeout, via, created) ==
    IF created
    THEN /\ esWs' = EsNewSocket(esWs, via)
         /\ reconnectTimeout' = timeout
         /\ UNCHANGED <<reconnectAttempts, esShown, esConsoleError, esFailures,
                        esUncaught>>
    ELSE LET r == ScheduleReconnect(timeout, reconnectAttempts, esShown) IN
         /\ reconnectAttempts >= MaxReconnectAttempts => esShown < MaxShown
         /\ reconnectTimeout' = r.timeout
         /\ reconnectAttempts' = r.attempts
         /\ esShown' = r.shown
         /\ esConsoleError' = "connect failed"
         /\ esFailures' = esFailures + 1
         /\ UNCHANGED esUncaught
         /\ UNCHANGED esWs

\* connect() called by the owner of the stream
EsConnect(created) ==
    /\ Len(esWs) < MaxSockets
    /\ EsConnectBody(reconnectTimeout, "connect", created)
    /\ esWanted' = TRUE
    /\ UNCHANGED esEmits
    /\ UNCHANGED notEs

\* ws.on('open')
EsOnOpen(s) ==
    /\ esWs[s].state = "connecting"
    /\ esWs' = [esWs EXCEPT ![s].state = "open"]
    /\ reconnectAttempts' = 0
    /\ esFailures' = 0
    /\ UNCHANGED esUncaught
    /\ UNCHANGED <<reconnectTimeout, esWanted, esEmits, esShown, esConsoleError>>
    /\ UNCHANGED notEs

\* ws.on('message')
EsOnMessage(s, data) ==
    /\ esWs[s].state \in {"open", "closing"}
    /\ IF HandlerEmits(JSONParse(data))
       THEN esEmits < MaxEmits /\ esEmits' = esEmits + 1
       ELSE UNCHANGED esEmits
    /\ esConsoleError' = ParseError(JSONParse(data), esConsoleError)
    /\ UNCHANGED <<esWs, reconnectTimeout, reconnectAttempts, esWanted, esShown,
                   esFailures, esUncaught>>
    /\ UNCHANGED notEs

\* this.emit('error', error): an EventEmitter throws the error when no
\* listener is registered for 'error'
EmitErrorThrows(listening) == ~listening

\* ws.on('error'): console.error, then emit('error', error)
EsOnError(s, listening) ==
    /\ s \in DOMAIN esWs
    /\ esConsoleError' = "socket error"
    /\ esUncaught' = (esUncaught \/ EmitErrorThrows(listening))
    /\ UNCHANGED <<esWs, reconnectTimeout, reconnectAttempts, esWanted, esEmits,
                   esShown, esFailures>>
    /\ UNCHANGED notEs

\* ws.on('close'): emit('disconnected'); scheduleReconnect()
EsOnClose(s, code) ==
    /\ s \in DOMAIN esWs
    /\ reconnectAttempts >= MaxReconnectAttempts => esShown < MaxShown
    /\ esWs' = SelectSeq2(esWs, DOMAIN esWs \ {s})
    /\ LET r == ScheduleReconnect(reconnectTimeout, reconnectAttempts, esShown) IN
         /\ reconnectTimeout' = r.timeout
         /\ reconnectAttempts' = r.attempts
         /\ esShown' = r.shown
    /\ esFailures' = esFailures + 1
    /\ UNCHANGED <<esWanted, esEmits, esConsoleError, esUncaught>>
    /\ UNCHANGED notEs

\* the setTimeout callback of scheduleReconnect: connect(); the handle stays
\* in reconnectTimeout
EsTimerFires(created) ==
    /\ reconnectTimeout.state = "pending"
    /\ Len(esWs) < MaxSockets
    /\ EsConnectBody([reconnectTimeout EXCEPT !.state = "fired"], "reconnect", created)
    /\ UNCHANGED <<esWanted, esEmits>>
    /\ UNCHANGED notEs

\* if (this.ws) { this.ws.close(); this.ws = null; }
EsCloseCurrent(sockets) ==
    [i \in DOMAIN sockets |->
        IF sockets[i].current
        THEN [sockets[i] EXCEPT !.current = FALSE, !.state = "closing"]
        ELSE sockets[i]]

\* disconnect()
EsDisconnect ==
    /\ reconnectTimeout' = NoTimeout
    /\ esWs' = EsCloseCurrent(esWs)
    /\ esWanted' = FALSE
    /\ UNCHANGED <<reconnectAttempts, esEmits, esShown, esConsoleError, esFailures,
                   esUncaught>>
    /\ UNCHANGED notEs

EsNext ==
    \/ \E created \in BOOLEAN : EsConnect(created)
    \/ \E s \in DOMAIN esWs : EsOnOpen(s)
    \/ \E s \in DOMAIN esWs, data \in Frames : EsOnMessage(s, data)
    \/ \E s \in DOMAIN esWs, listening \in BOOLEAN : EsOnError(s, listening)
    \/ \E s \in DOMAIN esWs, code \in CloseCodes : EsOnClose(s, code)
    \/ \E created \in BOOLEAN : EsTimerFires(created)
    \/ EsDisconnect

\* the extension runs one implementation of the push channel: the steps of
\* either class while the other one has not been used
PushNext ==
    \/ \E created \in BOOLEAN : EsInit /\ WsConnect(created)
    \/ \E id \in WsPipelines, created \in BOOLEAN :
          EsInit /\ WsTrackPipeline(id, created)
    \/ \E s \in DOMAIN wsSockets : EsInit /\ WsOnOpen(s)
    \/ \E s \in DOMAIN wsSockets, data \in Frames, show \in BOOLEAN,
          level \in {"all", "failures", "none"} :
          EsInit /\ WsOnMessage(s, data, show, level)
    \/ \E s \in DOMAIN wsSockets, code \in CloseCodes : EsInit /\ WsOnClose(s, code)
    \/ \E t \in DOMAIN wsTimers, created \in BOOLEAN :
          EsInit /\ WsTimerFires(t, created)
    \/ EsInit /\ WsDisconnect
    \/ \E created \in BOOLEAN : WsInit /\ EsConnect(created)
    \/ \E s \in DOMAIN esWs : WsInit /\ EsOnOpen(s)
    \/ \E s \in DOMAIN esWs, data \in Frames : WsInit /\ EsOnMessage(s, data)
    \/ \E s \in DOMAIN esWs, listening \in BOOLEAN :
          WsInit /\ EsOnError(s, listening)
    \/ \E s \in DOMAIN wsSockets : EsInit /\ WsOnError(s)
    \/ \E s \in DOMAIN esWs, code \in CloseCodes : WsInit /\ EsOnClose(s, code)
    \/ \E created \in BOOLEAN : WsInit /\ EsTimerFires(created)
    \/ WsInit /\ EsDisconnect

(***************************************************************************)
(* The extension: activate(), its refresh interval, setupWebSocket and the *)
(* disposal of context.subscriptions                                       *)
(***************************************************************************)
ExtInit ==
    /\ extState = "inactive"
    /\ refreshTimer = "none"
    /\ refreshTicks = 0
    /\ timerTicks = 0
    /\ tpVisible = FALSE

\* variant: the provider always reports itself visible
isVisible_Always(visible) == TRUE

\* isVisible(): the visible field, which starts false; setVisible, the only
\* code that assigns it, has no caller
isVisible(visible) == visible

\* activate(): setInterval, the disposable of the timer, then setupWebSocket,
\* whose awaits are settled within the same turn of the event loop
ExtActivate(created) ==
    /\ extState = "inactive"
    /\ extState' = "active"
    /\ refreshTimer' = "running"
    /\ UNCHANGED <<refreshTicks, timerTicks, tpVisible>>
    /\ WsConnectBody(created)
    /\ UNCHANGED <<monVars, esVars, apiVars, treeVars, panelVars, k8sVars,
                   authVars>>

\* the setInterval callback
ExtRefreshTick ==
    /\ refreshTimer = "running"
    /\ timerTicks < MaxTicks
    /\ timerTicks' = timerTicks + 1
    /\ refreshTicks' = IF isVisible(tpVisible) THEN refreshTicks + 1
                       ELSE refreshTicks
    /\ UNCHANGED <<extState, refreshTimer, tpVisible>>
    /\ UNCHANGED <<monVars, wsVars, esVars, apiVars, treeVars, panelVars, k8sVars,
                   authVars>>

\* context.subscriptions are disposed: clearInterval(refreshTimer) and
\* websocketManager.disconnect()
ExtDispose ==
    /\ extState = "active"
    /\ extState' = "disposed"
    /\ refreshTimer' = "cleared"
    /\ UNCHANGED <<refreshTicks, timerTicks, tpVisible>>
    /\ WsDisconnectBody
    /\ UNCHANGED <<monVars, esVars, apiVars, treeVars, panelVars, k8sVars,
                   authVars>>

LifecycleNext ==
    \/ \E created \in BOOLEAN : ExtActivate(created)
    \/ ExtRefreshTick
    \/ ExtDispose
    \/ \E id \in WsPipelines, created \in BOOLEAN :
          extState = "active" /\ WsTrackPipeline(id, created)
    \/ \E s \in DOMAIN wsSockets : WsOnOpen(s)
    \/ \E s \in DOMAIN wsSockets, data \in Frames, show \in BOOLEAN,
          level \in {"all", "failures", "none"} :
          WsOnMessage(s, data, show, level)
    \/ \E s \in DOMAIN wsSockets, code \in CloseCodes : WsOnClose(s, code)
    \/ \E t \in DOMAIN wsTimers, created \in BOOLEAN : WsTimerFires(t, created)

(***************************************************************************)
(* ControlHubAPI.testConnection                                            *)
(***************************************************************************)
\* an answer to a GET: reached = an HTTP response arrived (otherwise network
\* error or timeout); body = what response.data.status would read
Unreachable == [reached |-> FALSE, status |-> 200, body |-> "none"]
Answer(status, body) == [reached |-> TRUE, status |-> status, body |-> body]
HealthAnswers ==
    {Unreachable}
    \cup {Answer(200, b) : b \in {"healthy", "degraded", "no status", "null body"}}
    \cup {Answer(st, "none") : st \in {401, 404, 500}}
PipelinesAnswers ==
    {Unreachable} \cup {Answer(st, "none") : st \in {200, 401, 403, 404, 500}}

\* axios default validateStatus
DefaultValidateStatus(status) == status >= 200 /\ status < 300

\* variant: only 200 counts on the fallback path
FallbackValidateStatus_Only200(status) == status = 200

\* validateStatus of the fallback request: 200 or 401
FallbackValidateStatus(status) == status = 200 \/ status = 401

\* the first try block: the request resolves and response.data can be read
HealthReturns(answer) ==
    /\ answer.reached
    /\ DefaultValidateStatus(answer.status)
    /\ answer.body # "null body"

ApiInit ==
    /\ backend = [health |-> Unreachable, pipelines |-> Unreachable]
    /\ tcPc = "idle"
    /\ tcResult = FALSE
    /\ apiRet = [op |-> "none"]

\* testConnection() is called: GET /health is sent to some backend
TestConnection(health, pipelines) ==
    /\ tcPc \in {"idle", "done"}
    /\ backend' = [health |-> health, pipelines |-> pipelines]
    /\ tcPc' = "health"
    /\ tcResult' = FALSE
    /\ UNCHANGED apiRet
    /\ UNCHANGED notApi

\* GET /health settles: return status === 'healthy', or fall into the catch
\* and send GET /pipelines
HealthSettles ==
    /\ tcPc = "health"
    /\ IF HealthReturns(backend.health)
       THEN tcPc' = "done" /\ tcResult' = (backend.health.body = "healthy")
       ELSE tcPc' = "fallback" /\ UNCHANGED tcResult
    /\ UNCHANGED <<backend, apiRet>>
    /\ UNCHANGED notApi

\* GET /pipelines?limit=1 settles
FallbackSettles ==
    /\ tcPc = "fallback"
    /\ tcPc' = "done"
    /\ tcResult' = (/\ backend.pipelines.reached
                    /\ FallbackValidateStatus(backend.pipelines.status))
    /\ UNCHANGED <<backend, apiRet>>
    /\ UNCHANGED notApi

ApiNext ==
    \/ \E health \in HealthAnswers, pipelines \in PipelinesAnswers :
          TestConnection(health, pipelines)
    \/ HealthSettles
    \/ FallbackSettles

(***************************************************************************)
(* ControlHubAPI.listPipelines and ControlHubAPI.getPipeline               *)
(***************************************************************************)
\* a pipeline object of the API: optional fields are None when absent
RawPipelines ==
    [id : {"p1", "p2"}, appName : {"web"},
     startedAt : {None, Some(0), Some(1000)}, startTime : {None, Some(900)},
     completedAt : {None}, endTime : {None, Some(1100)},
     status : {None, Some("RUNNING"), Some("")},
     events : {None}, triggerType : {None, Some("git_push")}, duration : {None}]

\* the pipeline objects used inside list responses
ListedRawPipelines ==
    {p \in RawPipelines :
        /\ p.endTime = None /\ p.triggerType = None /\ p.startTime = Some(900)
        /\ p.startedAt # Some(0) /\ p.status # Some("")}

RECURSIVE SeqsUpTo(_, _)
SeqsUpTo(S, n) ==
    IF n = 0 THEN {<<>>}
    ELSE SeqsUpTo(S, n - 1)
         \cup {Append(q, x) : q \in {r \in SeqsUpTo(S, n - 1) : Len(r) = n - 1},
                              x \in S}

\* response.data of GET /pipelines: null, an object without a pipelines
\* field, an object whose pipelines is not an array, or the documented shape
ListBodies ==
    {[kind |-> k, pipelines |-> <<>>] : k \in {"null", "no field", "not array"}}
    \cup {[kind |-> "list", pipelines |-> ps] :
            ps \in SeqsUpTo(ListedRawPipelines, MaxListed)}
NoBody == [kind |-> "none"]
NoResponse == [reached |-> FALSE, status |-> 200, body |-> NoBody]
ListAnswers ==
    {NoResponse}
    \cup {Answer(st, NoBody) : st \in {204, 401, 404, 500}}
    \cup {Answer(200, b) : b \in ListBodies}

\* response.data of GET /pipelines/<id>
GetAnswers ==
    {NoResponse}
    \cup {Answer(st, NoBody) : st \in {401, 404, 500}}
    \cup {Answer(200, [kind |-> "null"])}
    \cup {Answer(200, [kind |-> "object", pipeline |-> p]) : p \in RawPipelines}

\* a || b
JsOr(a, b) == IF Truthy(a) THEN a ELSE b

\* String.prototype.toLowerCase
ToLowerCase(str) == IF str = "RUNNING" THEN "running" ELSE str

\* the object literal both methods build from an API pipeline p
MapPipeline(p) ==
    [id |-> p.id,
     appName |-> p.appName,
     startTime |-> JsOr(p.startedAt, p.startTime),
     endTime |-> JsOr(p.completedAt, p.endTime),
     status |-> IF p.status # None /\ ToLowerCase(p.status[1]) # ""
                THEN ToLowerCase(p.status[1]) ELSE "pending",
     events |-> IF p.events = None THEN <<>> ELSE p.events[1],
     trigger |-> IF p.triggerType = None THEN "manual" ELSE p.triggerType[1],
     duration |-> p.duration]

Returned(value) == [threw |-> FALSE, value |-> value]
Thrown(kind, status) == [threw |-> TRUE, kind |-> kind, status |-> status]

\* await this.client.get(...): rejects with an AxiosError when no response
\* arrives or validateStatus refuses the status
AxiosGet(answer, valid) ==
    IF ~answer.reached THEN Thrown("axios", 0)
    ELSE IF ~valid THEN Thrown("axios", answer.status)
    ELSE Returned(answer.body)

\* the try block of listPipelines
ListPipelinesTry(answer) ==
    LET response == AxiosGet(answer, answer.status = 200) IN
    IF response.threw THEN response
    ELSE CASE response.value.kind = "null" -> Thrown("TypeError", 0)
           [] response.value.kind = "no field" -> Returned(<<>>)
           [] response.value.kind = "not array" -> Thrown("TypeError", 0)
           [] OTHER ->
                Returned([i \in DOMAIN response.value.pipelines |->
                            MapPipeline(response.value.pipelines[i])])

\* variant: the catch returns [] for 401 only and rethrows anything else
listPipelines_RethrowOther(answer) ==
    LET r == ListPipelinesTry(answer) IN
    IF r.threw /\ r.status = 401 THEN Returned(<<>>) ELSE r

\* listPipelines(): the catch logs and returns []
listPipelines(answer) ==
    LET r == ListPipelinesTry(answer) IN
    IF r.threw THEN Returned(<<>>) ELSE r

\* the try block of getPipeline
GetPipelineTry(answer) ==
    LET response == AxiosGet(answer, DefaultValidateStatus(answer.status)) IN
    IF response.threw THEN response
    ELSE IF response.value.kind = "null" THEN Thrown("TypeError", 0)
    ELSE Returned(Some(MapPipeline(response.value.pipeline)))

\* variant: the catch maps every failure to null
getPipeline_NullOnAnyError(answer) ==
    LET r == GetPipelineTry(answer) IN
    IF r.threw THEN Returned(None) ELSE r

\* getPipeline(pipelineId): 404 maps to null, any other failure is rethrown
getPipeline(answer) ==
    LET r == GetPipelineTry(answer) IN
    IF r.threw /\ r.kind = "axios" /\ r.status = 404 THEN Returned(None) ELSE r

ListPipelines(answer) ==
    /\ apiRet' = [op |-> "listPipelines", answer |-> answer,
                  result |-> listPipelines(answer)]
    /\ UNCHANGED <<backend, tcPc, tcResult>>
    /\ UNCHANGED notApi

GetPipeline(answer) ==
    /\ apiRet' = [op |-> "getPipeline", answer |-> answer,
                  result |-> getPipeline(answer)]
    /\ UNCHANGED <<backend, tcPc, tcResult>>
    /\ UNCHANGED notApi

\* response.data of GET /metrics and of GET /applications
MetricsAnswers ==
    {NoResponse}
    \cup {Answer(st, NoBody) : st \in {401, 404, 500, 503}}
    \cup {Answer(200, [kind |-> k]) : k \in {"null", "metrics"}}
ApplicationsAnswers ==
    {NoResponse}
    \cup {Answer(st, NoBody) : st \in {401, 404, 500, 503}}
    \cup {Answer(200, [kind |-> "apps", apps |-> apps]) :
             apps \in {<<>>, <<"web">>, <<"web", "api">>}}

\* getMetrics(appName): response.data.metrics; the catch logs and rethrows
apiGetMetrics(answer) ==
    LET response == AxiosGet(answer, DefaultValidateStatus(answer.status)) IN
    IF response.threw THEN response
    ELSE IF response.value.kind = "null" THEN Thrown("TypeError", 0)
    ELSE Returned("metrics")

\* listApplications(): response.data; the catch logs and rethrows
listApplications(answer) ==
    LET response == AxiosGet(answer, DefaultValidateStatus(answer.status)) IN
    IF response.threw THEN response ELSE Returned(response.value.apps)

ApiGetMetrics(answer) ==
    /\ apiRet' = [op |-> "getMetrics", answer |-> answer,
                  result |-> apiGetMetrics(answer)]
    /\ UNCHANGED <<backend, tcPc, tcResult>>
    /\ UNCHANGED notApi

ListApplications(answer) ==
    /\ apiRet' = [op |-> "listApplications", answer |-> answer,
                  result |-> listApplications(answer)]
    /\ UNCHANGED <<backend, tcPc, tcResult>>
    /\ UNCHANGED notApi

RestNext ==
    \/ \E answer \in ListAnswers : ListPipelines(answer)
    \/ \E answer \in GetAnswers : GetPipeline(answer)
    \/ \E answer \in MetricsAnswers : ApiGetMetrics(answer)
    \/ \E answer \in ApplicationsAnswers : ListApplications(answer)

(***************************************************************************)
(* PipelineTreeProvider: refresh(), loadPipelines() and getChildren() at   *)
(* the root                                                                *)
(***************************************************************************)
LoadingItem == [kind |-> "loading"]

\* pipeline.stageCount, pipeline.stages: undefined when the object has no
\* such property
StageCountOf(pipeline) ==
    IF "stageCount" \in DOMAIN pipeline THEN pipeline.stageCount ELSE None
StagesOf(pipeline) ==
    IF "stages" \in DOMAIN pipeline THEN pipeline.stages ELSE None

\* hasStages, as the conditional operator reads it
HasStages(pipeline) ==
    \/ StageCountOf(pipeline) # None /\ StageCountOf(pipeline)[1] > 0
    \/ StagesOf(pipeline) # None /\ Len(StagesOf(pipeline)[1]) > 0

\* new PipelineItem(pipeline, hasStages ? Collapsed : None)
PipelineItem(pipeline) ==
    [kind |-> "pipeline", pipeline |-> pipeline,
     collapsibleState |-> IF HasStages(pipeline) THEN "Collapsed" ELSE "None"]

\* getChildren(undefined)
getChildren(isLoading, list) ==
    IF isLoading THEN <<LoadingItem>>
    ELSE [i \in DOMAIN list |-> PipelineItem(list[i])]

\* what the await of loadPipelines leaves in this.pipelines: the resolved
\* list, or [] from the catch
LoadedPipelines(answer) ==
    LET r == listPipelines(answer) IN
    IF r.threw THEN <<>> ELSE r.value

\* the pipelines of the response body that LoadedPipelines maps
ListedBy(answer) ==
    IF listPipelines(answer).threw \/ ~answer.reached \/ answer.status # 200
       \/ answer.body.kind # "list"
    THEN <<>> ELSE answer.body.pipelines

TreeIds == {"p1", "p2"}

\* pipelines of a list response that carry the stage count hint
StagedRawPipelines ==
    LET Hints == {[id |-> "p1", stageCount |-> None],
                  [id |-> "p1", stageCount |-> Some(2)],
                  [id |-> "p2", stageCount |-> Some(0)]}
        Plain == {q \in ListedRawPipelines :
                    q.startedAt = None /\ q.status = Some("RUNNING")}
    IN  UNION {{[stageCount |-> c.stageCount] @@ p : p \in {q \in Plain : q.id = c.id}} :
               c \in Hints}
TreeAnswers ==
    {NoResponse, Answer(500, NoBody)}
    \cup {Answer(200, [kind |-> "list", pipelines |-> ps]) :
            ps \in SeqsUpTo(StagedRawPipelines, MaxListed)}
StageAnswers ==
    {NoResponse, Answer(404, NoBody), Answer(500, NoBody)}
    \cup {Answer(200, [kind |-> "object", pipeline |-> p]) :
            p \in StagedRawPipelines}

\* the constructor has called refresh(): loading is set and the first
\* listPipelines call is outstanding
TreeInit ==
    /\ loading = TRUE
    /\ treePipelines = <<>>
    /\ tpFetches = 1
    /\ tpPending = <<[overtaken |-> FALSE]>>
    /\ tpLastSettle = "none"
    /\ tpListed = <<>>
    /\ expandedPipelines = {}
    /\ tpExpansions = [id \in TreeIds |-> 0]
    /\ pipelineExpanded = [id \in TreeIds |-> [expansion |-> 0, command |-> 0]]
    /\ tpCache = {}
    /\ tpStageFetches = [id \in TreeIds |-> 0]

\* refresh(): loadPipelines() up to its await, then fire
Refresh ==
    /\ tpFetches < MaxFetches
    /\ loading' = TRUE
    /\ tpFetches' = tpFetches + 1
    /\ tpPending' = Append(tpPending, [overtaken |-> FALSE])
    /\ UNCHANGED <<treePipelines, tpListed, tpLastSettle, expandVars>>
    /\ UNCHANGED notTree

\* history: the calls still outstanding once the k-th has settled; those
\* started before it have been overtaken
AfterSettle(pending, k) ==
    [i \in 1..(Len(pending) - 1) |->
        IF i < k THEN [overtaken |-> TRUE] ELSE pending[i + 1]]

\* the k-th outstanding listPipelines call settles: the rest of loadPipelines
LoadPipelinesSettles(k, answer) ==
    /\ tpFetches > 0
    /\ k \in DOMAIN tpPending
    /\ tpPending' = AfterSettle(tpPending, k)
    /\ tpLastSettle' = IF tpPending[k].overtaken THEN "overtaken" ELSE "latest"
    /\ treePipelines' = LoadedPipelines(answer)
    /\ tpListed' = ListedBy(answer)
    /\ loading' = FALSE
    /\ tpFetches' = tpFetches - 1
    /\ UNCHANGED expandVars
    /\ UNCHANGED notTree

TreeNext ==
    \/ Refresh
    \/ \E k \in DOMAIN tpPending, answer \in ListAnswers :
          LoadPipelinesSettles(k, answer)

\* loadPipelineStages: the test that guards the emission
ExpansionEmits_Always(expanded, pipelineId) == TRUE
ExpansionEmits(expanded, pipelineId) == pipelineId \notin expanded

\* getChildren(element) for a pipeline item the root currently shows:
\* loadPipelineStages up to its await. The objects getPipeline builds carry
\* no stages property, so a cached pipeline does not spare the request.
LoadPipelineStages(pipelineId) ==
    /\ ~loading
    /\ \E i \in DOMAIN treePipelines : treePipelines[i].id = pipelineId
    /\ tpExpansions[pipelineId] < MaxExpansions
    /\ tpExpansions' = [tpExpansions EXCEPT ![pipelineId] = @ + 1]
    /\ expandedPipelines' = expandedPipelines \cup {pipelineId}
    /\ pipelineExpanded' =
          IF ExpansionEmits(expandedPipelines, pipelineId)
          THEN [pipelineExpanded EXCEPT ![pipelineId].expansion = @ + 1]
          ELSE pipelineExpanded
    /\ tpStageFetches' = [tpStageFetches EXCEPT ![pipelineId] = @ + 1]
    /\ UNCHANGED <<listVars, tpCache>>
    /\ UNCHANGED notTree

\* an outstanding getPipeline call settles: the rest of loadPipelineStages
StageFetchSettles(pipelineId, answer) ==
    /\ tpStageFetches[pipelineId] > 0
    /\ tpStageFetches' = [tpStageFetches EXCEPT ![pipelineId] = @ - 1]
    /\ tpCache' =
          IF ~getPipeline(answer).threw /\ getPipeline(answer).value # None
          THEN tpCache \cup {pipelineId} ELSE tpCache
    /\ UNCHANGED <<listVars, expandedPipelines, tpExpansions, pipelineExpanded>>
    /\ UNCHANGED notTree

\* the handler of the command thinkube-cicd.trackExpanded
TrackExpandedCommand(pipelineId) ==
    /\ pipelineExpanded[pipelineId].command < MaxCommands
    /\ expandedPipelines' = expandedPipelines \cup {pipelineId}
    /\ pipelineExpanded' =
          [pipelineExpanded EXCEPT ![pipelineId].command = @ + 1]
    /\ UNCHANGED <<listVars, tpExpansions, tpCache, tpStageFetches>>
    /\ UNCHANGED notTree

ExpandNext ==
    \/ Refresh
    \/ \E k \in DOMAIN tpPending, answer \in TreeAnswers :
          LoadPipelinesSettles(k, answer)
    \/ \E pipelineId \in TreeIds : LoadPipelineStages(pipelineId)
    \/ \E pipelineId \in TreeIds, answer \in StageAnswers :
          StageFetchSettles(pipelineId, answer)
    \/ \E pipelineId \in TreeIds : TrackExpandedCommand(pipelineId)

(***************************************************************************)
(* PipelineTimelinePanel._generateCustomTimeline: the bar of each stage.   *)
(* Times are Unix seconds; Date.now() is read once per stage when maxTime  *)
(* is computed and once per stage when its bar is drawn, and does not go   *)
(* back.                                                                   *)
(***************************************************************************)
StartTimes == {0, 5, 10}
Stages ==
    [startedAt : StartTimes, completedAt : {None, Some(10), Some(20)}]
Clock == {30, 31}

\* [...pipeline.stages].sort((a, b) => a.startedAt - b.startedAt): stable,
\* ascending
RECURSIVE InsertByStartedAt(_, _)
InsertByStartedAt(sorted, stage) ==
    IF sorted = <<>> THEN <<stage>>
    ELSE IF Head(sorted).startedAt <= stage.startedAt
         THEN <<Head(sorted)>> \o InsertByStartedAt(Tail(sorted), stage)
         ELSE <<stage>> \o sorted
RECURSIVE SortStages(_)
SortStages(stages) ==
    IF stages = <<>> THEN <<>>
    ELSE InsertByStartedAt(SortStages(SubSeq(stages, 1, Len(stages) - 1)),
                           stages[Len(stages)])

\* s.completedAt || Math.floor(Date.now() / 1000)
EndTimeOf(stage, now) ==
    IF Truthy(stage.completedAt) THEN stage.completedAt[1] ELSE now

\* Math.max(...sortedStages.map(...))
RECURSIVE MaxEndTime(_, _)
MaxEndTime(stages, now) ==
    IF Len(stages) = 1 THEN EndTimeOf(stages[1], now)
    ELSE LET m == MaxEndTime(Tail(stages), now)
             e == EndTimeOf(Head(stages), now)
         IN  IF e >= m THEN e ELSE m

\* Math.max(width, 2): NaN and Infinity pass through
ClampWidth(width) ==
    IF ~IsFinite(width) THEN width
    ELSE IF width.num >= 2 * width.den THEN width ELSE JsNumber(2)

\* variant: the width is taken relative to maxTime
BarWidth_OfMaxTime(duration, totalDuration, maxTime) ==
    JsTimes(JsDiv(duration, maxTime), 100)
\* (duration / totalDuration) * 100
BarWidth(duration, totalDuration, maxTime) ==
    JsTimes(JsDiv(duration, totalDuration), 100)

\* the left, width and label of the bar drawn for one stage
TimelineBar(stage, minTime, maxTime, now) ==
    LET totalDuration == maxTime - minTime
        duration == EndTimeOf(stage, now) - stage.startedAt
        width == BarWidth(duration, totalDuration, maxTime)
    IN  [left |-> JsTimes(JsDiv(stage.startedAt - minTime, totalDuration), 100),
         rawWidth |-> width,
         width |-> ClampWidth(width),
         label |-> duration]

\* _generateCustomTimeline(pipeline): no bars for a pipeline without stages
generateCustomTimeline(stages, nowMax, nowBars) ==
    IF Len(stages) = 0 THEN <<>>
    ELSE LET sortedStages == SortStages(stages)
             minTime == sortedStages[1].startedAt
             maxTime == MaxEndTime(sortedStages, nowMax)
         IN  [i \in DOMAIN sortedStages |->
                TimelineBar(sortedStages[i], minTime, maxTime, nowBars)]

PanelInit == timeline = [op |-> "none"]

GenerateCustomTimeline(stages, nowMax, nowBars) ==
    /\ nowMax <= nowBars
    /\ timeline' = [op |-> "timeline", stages |-> stages,
                    bars |-> generateCustomTimeline(stages, nowMax, nowBars)]
    /\ UNCHANGED notPanel

PanelNext ==
    \E stages \in SeqsUpTo(Stages, MaxStages), nowMax \in Clock, nowBars \in Clock :
        GenerateCustomTimeline(stages, nowMax, nowBars)

(***************************************************************************)
(* K8sClient.watchConfigMaps as PipelineMonitor.setupWatcher uses it: the  *)
(* watch delivers ConfigMap events to the monitor, its done callback arms  *)
(* a timer that calls watchConfigMaps again, and the cleanup function      *)
(* aborts the request of the call that returned it.                        *)
(***************************************************************************)
K8sInit ==
    /\ k8sRequest = "none"
    /\ k8sRewatches = 0
    /\ k8sTimers = 0
    /\ k8sCleanup = "none"
    /\ k8sEnded = 0

\* watchConfigMaps(namespace, labelSelector, callback) called by its owner;
\* watch.watch may throw, which is logged and leaves request undefined
WatchConfigMaps(established) ==
    /\ k8sCleanup = "none"
    /\ k8sRequest' = IF established THEN "active" ELSE "none"
    /\ k8sCleanup' = "returned"
    /\ UNCHANGED <<k8sRewatches, k8sTimers, k8sEnded>>
    /\ UNCHANGED notK8s

\* an active watch delivers an event to the callback of setupWatcher
WatchDelivers(type, cm) ==
    /\ k8sRequest = "active" \/ k8sRewatches > 0
    /\ WatchEvent(type, cm)

\* the done callback of the owner's request: setTimeout(re-watch, 5000)
RequestFails ==
    /\ k8sRequest = "active"
    /\ k8sEnded < MaxEnded
    /\ k8sEnded' = k8sEnded + 1
    /\ k8sRequest' = "ended"
    /\ k8sTimers' = k8sTimers + 1
    /\ UNCHANGED <<k8sRewatches, k8sCleanup>>
    /\ UNCHANGED notK8s

\* the done callback of a watch established by a timer
RewatchFails ==
    /\ k8sRewatches > 0
    /\ k8sEnded < MaxEnded
    /\ k8sEnded' = k8sEnded + 1
    /\ k8sRewatches' = k8sRewatches - 1
    /\ k8sTimers' = k8sTimers + 1
    /\ UNCHANGED <<k8sRequest, k8sCleanup>>
    /\ UNCHANGED notK8s

\* the timer callback: watchConfigMaps again; the cleanup function this call
\* resolves to is dropped
RewatchTimerFires(established) ==
    /\ k8sTimers > 0
    /\ k8sTimers' = k8sTimers - 1
    /\ k8sRewatches' = IF established THEN k8sRewatches + 1 ELSE k8sRewatches
    /\ UNCHANGED <<k8sRequest, k8sCleanup, k8sEnded>>
    /\ UNCHANGED notK8s

\* the cleanup function: if (request) request.abort(). Whether the library
\* reports the end of an aborted request to the done callback is left open.
Cleanup(reported) ==
    /\ k8sCleanup # "none"
    /\ k8sCleanup' = "called"
    /\ k8sRequest' = IF k8sRequest = "active" THEN "aborted" ELSE k8sRequest
    /\ IF k8sRequest = "active" /\ reported
       THEN /\ k8sEnded < MaxEnded
            /\ k8sEnded' = k8sEnded + 1
            /\ k8sTimers' = k8sTimers + 1
       ELSE UNCHANGED <<k8sTimers, k8sEnded>>
    /\ UNCHANGED k8sRewatches
    /\ UNCHANGED notK8s

WatchNext ==
    \/ \E established \in BOOLEAN : WatchConfigMaps(established)
    \/ \E type \in {"ADDED", "MODIFIED", "DELETED"}, cm \in DeepConfigMaps :
          WatchDelivers(type, cm)
    \/ RequestFails
    \/ RewatchFails
    \/ \E established \in BOOLEAN : RewatchTimerFires(established)
    \/ \E reported \in BOOLEAN : Cleanup(reported)

(***************************************************************************)
(* The bearer credential: getAuthToken of ControlHubAPI and of             *)
(* WebSocketManager, the request interceptor, and the headers option of    *)
(* new WebSocket. Strings are sequences of characters.                     *)
(***************************************************************************)
TokenPrefix == <<"t", "k", "_">>

\* variant: the prefix may occur anywhere in the token
StartsWith_Contains(str, prefix) ==
    \E i \in 1..Len(str) :
        /\ i + Len(prefix) - 1 <= Len(str)
        /\ SubSeq(str, i, i + Len(prefix) - 1) = prefix

\* String.prototype.startsWith
StartsWith(str, prefix) ==
    /\ Len(str) >= Len(prefix)
    /\ SubSeq(str, 1, Len(prefix)) = prefix

\* getAuthToken(): the configured token when it is non-empty and starts
\* with 'tk_', null otherwise
getAuthToken(configured) ==
    IF configured # None /\ configured[1] # <<>>
          /\ StartsWith(configured[1], TokenPrefix)
    THEN configured ELSE None

\* `Bearer ${token}`
Bearer(token) == <<"B", "e", "a", "r", "e", "r", " ">> \o token

\* the Authorization header of a request: if (token) { ... } in the
\* interceptor, token ? { Authorization } : undefined for a WebSocket
AuthorizationHeader(configured) ==
    LET token == getAuthToken(configured)
    IN  IF token # None THEN Some(Bearer(token[1])) ELSE None

\* the values of the apiToken setting: unset, empty, well-formed, without
\* the prefix, with the prefix not at the start
ApiTokens ==
    {None, Some(<<>>), Some(<<"t", "k", "_">>), Some(<<"t", "k", "_", "a">>),
     Some(<<"a", "b">>), Some(<<"t", "k">>), Some(<<"x", "t", "k", "_">>)}
HttpRequests == {"pipelines", "metrics"}
WsRequests == {"ws pipeline", "ws events"}

AuthInit ==
    /\ apiToken = None
    /\ sent = <<>>

\* the apiToken setting is changed (configureToken command, settings file)
UpdateApiToken(token) ==
    /\ apiToken' = token
    /\ UNCHANGED sent
    /\ UNCHANGED notAuth

\* a request of the axios client passes the request interceptor and is sent
HttpRequest(endpoint) ==
    /\ Len(sent) < MaxSent
    /\ sent' = Append(sent, [to |-> endpoint, configured |-> apiToken,
                             authorization |-> AuthorizationHeader(apiToken)])
    /\ UNCHANGED apiToken
    /\ UNCHANGED notAuth

\* connectToPipeline / connectToGlobalStream build the WebSocket request
WsRequest(endpoint) ==
    /\ Len(sent) < MaxSent
    /\ sent' = Append(sent, [to |-> endpoint, configured |-> apiToken,
                             authorization |-> AuthorizationHeader(apiToken)])
    /\ UNCHANGED apiToken
    /\ UNCHANGED notAuth

AuthNext ==
    \/ \E token \in ApiTokens : UpdateApiToken(token)
    \/ \E endpoint \in HttpRequests : HttpRequest(endpoint)
    \/ \E endpoint \in WsRequests : WsRequest(endpoint)

(***************************************************************************)
(* Specifications                                                          *)
(***************************************************************************)
vars == <<monVars, wsVars, esVars, apiVars, extVars, treeVars, panelVars, k8sVars,
         authVars>>

Init ==
    /\ MonInit /\ WsInit /\ EsInit /\ ApiInit /\ ExtInit /\ TreeInit /\ PanelInit
    /\ K8sInit /\ AuthInit

SpecMonitor == Init /\ [][MonNext]_vars

SpecMonitorAsync == Init /\ [][AsyncNext]_vars

SpecAnalyze == Init /\ [][AnalyzeNext]_vars

SpecQueries == Init /\ [][QueryNext]_vars

SpecWebSocket == Init /\ [][WsNext]_vars

SpecListener == Init /\ [][ListenerNext]_vars

\* a timer armed by setTimeout fires after its delay
SpecWebSocketFair ==
    Init /\ [][WsChannelNext]_vars /\ WF_vars(OldestTimerFires)

SpecEventStream == Init /\ [][EsNext]_vars

SpecPush == Init /\ [][PushNext]_vars

SpecApi == Init /\ [][ApiNext]_vars

SpecRest == Init /\ [][RestNext]_vars

SpecLifecycle == Init /\ [][LifecycleNext]_vars

SpecTree == Init /\ [][TreeNext]_vars

SpecExpand == Init /\ [][ExpandNext]_vars

SpecPanel == Init /\ [][PanelNext]_vars

SpecAuth == Init /\ [][AuthNext]_vars

SpecWatch == Init /\ [][WatchNext]_vars

(***************************************************************************)
(* Properties of the event path                                            *)
(***************************************************************************)
HasFailure(events) == \E i \in DOMAIN events : events[i].status = "failed"

\* C1: failure dominance. Whenever addEvent completes, every cached pipeline
\* whose event list already held a failure-status event is Failed afterwards,
\* whatever event was added (a non-failure event, DEPLOY_COMPLETE included).
C1_FailureDominance ==
    [][\A i \in DOMAIN pipelineCache :
          (ret'.op = "addEvent" /\ HasFailure(pipelineCache[i].events)
             /\ CacheHas(pipelineCache', pipelineCache[i].id))
          => CacheGet(pipelineCache', pipelineCache[i].id).status = "failed"]_vars

\* a failure event followed by a DEPLOY_COMPLETE that addEvent appended
C1_Witness ==
    \E i \in DOMAIN pipelineCache :
        LET p == pipelineCache[i] IN
        /\ ret.op = "addEvent"
        /\ Len(p.events) = 2
        /\ p.events[1].status = "failed"
        /\ p.events[2].eventType = "DEPLOY_COMPLETE"
        /\ p.events[2].status = "success"
        /\ p.status = "failed"

\* C2: endTime and duration are set at most once. No addEvent changes the
\* endTime or the duration of a cached pipeline whose endTime is already set.
C2_EndTimeSetOnce ==
    [][\A i \in DOMAIN pipelineCache :
          (ret'.op = "addEvent" /\ pipelineCache[i].endTime # None
             /\ CacheHas(pipelineCache', pipelineCache[i].id))
          => /\ CacheGet(pipelineCache', pipelineCache[i].id).endTime
                  = pipelineCache[i].endTime
             /\ CacheGet(pipelineCache', pipelineCache[i].id).duration
                  = pipelineCache[i].duration]_vars

\* C3: after a snapshot without events and one BUILD_FAILED event that has
\* no status field, the pipeline is Failed, endTime is the event's timestamp
\* and duration is endTime - startTime.
C3_BuildFailedScenario ==
    \A i \in DOMAIN pipelineCache :
        LET p == pipelineCache[i] IN
        (/\ ret.op = "addEvent"
         /\ Len(p.events) = 1
         /\ p.events[1].eventType = "BUILD_FAILED"
         /\ p.events[1].status = "undefined")
        => /\ p.status = "failed"
           /\ p.endTime = Some(p.events[1].timestamp)
           /\ p.duration = Some(p.events[1].timestamp - p.startTime)

\* the rule of the status computation, as the specification words it
ReferenceStatus(events) ==
    IF \E i \in DOMAIN events : events[i].status = "failed" THEN "failed"
    ELSE IF events # <<>> /\ events[Len(events)].eventType = "DEPLOY_COMPLETE"
         THEN "success"
    ELSE IF events = <<>> THEN "pending"
    ELSE "running"

\* C4: the status the monitor computed for each event sequence it holds is
\* the one of the reference rule: Failed if any event failed, else Succeeded
\* if the last event is DEPLOY_COMPLETE, else Pending if empty, else Running.
C4_StatusRule ==
    \A i \in DOMAIN pipelineCache :
        pipelineCache[i].status = ReferenceStatus(pipelineCache[i].events)

\* two events without failure, the last one DEPLOY_COMPLETE
C4_Witness ==
    \E i \in DOMAIN pipelineCache :
        LET p == pipelineCache[i] IN
        /\ Len(p.events) = 2
        /\ ~HasFailure(p.events)
        /\ p.events[1].eventType = "DEPLOY_COMPLETE"
        /\ p.events[2].eventType = "DEPLOY_COMPLETE"
        /\ p.status = "success"

(***************************************************************************)
(* Properties of the queries                                               *)
(***************************************************************************)
\* C8: getRecentPipelines(n) returns at most n pipelines (the n most recent
\* of the cache, or all when fewer are cached), with pairwise distinct IDs,
\* ordered by startTime descending, equal startTimes in cache order.
C8_RecentPipelines ==
    ret.op = "getRecentPipelines" =>
        LET r == ret.value IN
        /\ Len(r) = Min(ret.limit, Len(pipelineCache))
        /\ \A i \in DOMAIN r :
              CacheHas(pipelineCache, r[i].id) /\ r[i] = CacheGet(pipelineCache, r[i].id)
        /\ \A i, j \in DOMAIN r :
              i < j => /\ r[i].id # r[j].id
                       /\ r[i].startTime >= r[j].startTime
                       /\ (r[i].startTime = r[j].startTime
                             => CacheIndex(pipelineCache, r[i].id)
                                  < CacheIndex(pipelineCache, r[j].id))
        /\ \A i \in DOMAIN r, k \in DOMAIN pipelineCache :
              (\A j \in DOMAIN r : r[j].id # pipelineCache[k].id)
                 => r[i].startTime >= pipelineCache[k].startTime

\* three cached pipelines, the two of startTime 700 cached after the one of
\* startTime 500; getRecentPipelines(2) returned the two of 700 in cache order
C8_Witness ==
    /\ ret.op = "getRecentPipelines"
    /\ ret.limit = 2
    /\ Len(pipelineCache) = 3
    /\ pipelineCache[1].startTime = 500
    /\ pipelineCache[2].startTime = 700
    /\ pipelineCache[3].startTime = 700
    /\ ret.value = <<pipelineCache[2], pipelineCache[3]>>

\* C18: getActivePipelines() returns exactly the cached pipelines whose
\* status is Running or Pending, each once, ordered by startTime descending.
C18_ActivePipelines ==
    ret.op = "getActivePipelines" =>
        LET r == ret.value IN
        /\ \A i \in DOMAIN r :
              /\ r[i].status \in {"running", "pending"}
              /\ CacheHas(pipelineCache, r[i].id)
              /\ r[i] = CacheGet(pipelineCache, r[i].id)
        /\ \A k \in DOMAIN pipelineCache :
              pipelineCache[k].status \in {"running", "pending"}
                 => \E i \in DOMAIN r : r[i] = pipelineCache[k]
        /\ \A i, j \in DOMAIN r :
              i < j => r[i].id # r[j].id /\ r[i].startTime >= r[j].startTime

\* a Failed and a Succeeded pipeline are cached and left out, the Running
\* one is returned
C18_Witness ==
    /\ ret.op = "getActivePipelines"
    /\ Len(ret.value) = 1
    /\ ret.value[1].status = "running"
    /\ \E k \in DOMAIN pipelineCache : pipelineCache[k].status = "failed"
    /\ \E k \in DOMAIN pipelineCache : pipelineCache[k].status = "success"

\* C9: getMetrics never divides by zero. With no cached pipeline of the
\* application it returns totalPipelines = 0, successRate = 0 and
\* averageDuration = 0; with pipelines but no duration, averageDuration = 0;
\* otherwise successRate = succeeded / total * 100.
C9_Metrics ==
    ret.op = "getMetrics" =>
        LET m == ret.value
            mine == {i \in DOMAIN pipelineCache :
                       pipelineCache[i].appName = ret.appName}
            succeeded == {i \in mine : pipelineCache[i].status = "success"}
        IN
        /\ IsFinite(m.successRate) /\ IsFinite(m.averageDuration)
        /\ m.totalPipelines = Cardinality(mine)
        /\ mine = {} => /\ JsEquals(m.successRate, JsNumber(0))
                        /\ JsEquals(m.averageDuration, JsNumber(0))
        /\ (\A i \in mine : pipelineCache[i].duration = None)
              => JsEquals(m.averageDuration, JsNumber(0))
        /\ mine # {} => m.successRate.num * Cardinality(mine)
                          = 100 * Cardinality(succeeded) * m.successRate.den

\* metrics asked for an application without any cached pipeline while
\* pipelines of another application are cached
C9_Witness ==
    /\ ret.op = "getMetrics"
    /\ ret.appName = "api"
    /\ pipelineCache # <<>>
    /\ \A i \in DOMAIN pipelineCache : pipelineCache[i].appName = "web"
    /\ ret.value.totalPipelines = 0
    /\ ret.value.successRate = JsNumber(0)

C29_StatusFollowsEvents ==
    /\ [](\A i \in DOMAIN pipelineCache :
             pipelineCache[i].status
                 = calculatePipelineStatus(pipelineCache[i].events))
    /\ [][\A i \in DOMAIN pipelineCache :
             /\ i \in DOMAIN pipelineCache'
             /\ pipelineCache'[i].id = pipelineCache[i].id
             /\ pipelineCache'[i].status # pipelineCache[i].status =>
                    pipelineCache'[i].events # pipelineCache[i].events]_vars

\* addEvent pushed a failed event onto a running pipeline taken from a
\* snapshot
C29_Witness ==
    /\ ret.op = "addEvent"
    /\ \E i \in DOMAIN pipelineCache :
          /\ Len(pipelineCache[i].events) = 2
          /\ pipelineCache[i].events[1].status # "failed"
          /\ pipelineCache[i].events[2].status = "failed"
          /\ pipelineCache[i].status = "failed"

\* the IDs of the cached pipelines
CachedIds(cache) == {cache[i].id : i \in DOMAIN cache}

\* C30: a watch event ADDED or MODIFIED with a well-formed payload for ID x
\* leaves under x the pipeline of that payload alone (its fields and events,
\* the status of its events, endTime and duration exactly when its last
\* event is terminal), whatever was cached for x, and leaves every other
\* entry as it was; no step removes an ID from the cache.
C30_SnapshotUpserts ==
    [][/\ CachedIds(pipelineCache) \subseteq CachedIds(pipelineCache')
       /\ (/\ ret'.op = "watch"
           /\ ret'.type \in {"ADDED", "MODIFIED"}
           /\ ret'.cm.valid /\ ret'.cm.hasEvents) =>
              LET cm == ret'.cm
                  n == Len(cm.events)
                  terminal == n > 0 /\ isTerminalEvent(cm.events[n].eventType)
              IN  /\ CacheHas(pipelineCache', cm.pipelineId)
                  /\ LET p == CacheGet(pipelineCache', cm.pipelineId)
                     IN  /\ p.appName = cm.appName
                         /\ p.startTime = cm.startTime
                         /\ p.events = cm.events
                         /\ p.status = ReferenceStatus(cm.events)
                         /\ p.endTime =
                               IF terminal THEN Some(cm.events[n].timestamp) ELSE None
                         /\ p.duration =
                               IF terminal
                               THEN Some(cm.events[n].timestamp - cm.startTime)
                               ELSE None
                  /\ \A i \in DOMAIN pipelineCache :
                        pipelineCache[i].id # cm.pipelineId =>
                            pipelineCache'[i] = pipelineCache[i]
                  /\ Cardinality(CachedIds(pipelineCache')) =
                        Cardinality(CachedIds(pipelineCache) \cup {cm.pipelineId})
                  /\ Len(pipelineCache') = Cardinality(CachedIds(pipelineCache'))]_vars

\* a snapshot of p1 without events replaced the failed p1 while p2 is cached
C30_Witness ==
    /\ ret.op = "watch"
    /\ ret.type = "MODIFIED"
    /\ ret.cm.valid /\ ret.cm.hasEvents
    /\ ret.cm.pipelineId = "p1"
    /\ ret.cm.events = <<>>
    /\ CacheHas(pipelineCache, "p2")
    /\ CacheGet(pipelineCache, "p1").status = "pending"
    /\ CacheIndex(pipelineCache, "p1") < CacheIndex(pipelineCache, "p2")

\* the events of the calls that found their pipeline, in call order
RECURSIVE PushedEvents(_)
PushedEvents(calls) ==
    IF calls = <<>> THEN <<>>
    ELSE PushedEvents(SubSeq(calls, 1, Len(calls) - 1))
         \o (IF calls[Len(calls)].state = "pushed"
             THEN <<calls[Len(calls)].event>> ELSE <<>>)

\* the events of a sequence that were passed to addEvent
RECURSIVE CalledIn(_, _)
CalledIn(events, calls) ==
    IF events = <<>> THEN <<>>
    ELSE (IF \E k \in DOMAIN calls : calls[k].event = Head(events)
          THEN <<Head(events)>> ELSE <<>>) \o CalledIn(Tail(events), calls)

\* C27: once every addEvent call has completed, the events of the cached
\* pipeline that came from addEvent are the events of the calls that found
\* the pipeline, each once and in call order, however the lookups of
\* concurrent calls were interleaved.
C27_EventsInCallOrder ==
    (/\ \A k \in DOMAIN addCalls : addCalls[k].state # "awaiting"
     /\ CacheHas(pipelineCache, "p1")) =>
        CalledIn(CacheGet(pipelineCache, "p1").events, addCalls)
            = PushedEvents(addCalls)

(***************************************************************************)
(* Properties of the push channels                                         *)
(***************************************************************************)
\* a step in which a reconnect path opened a new connection attempt
WsReconnectStarted ==
    /\ Len(wsSockets') > Len(wsSockets)
    /\ wsSockets'[Len(wsSockets')].via = "reconnect"

\* C5: once disconnect() has been called (isActive is false), no step starts
\* a connection attempt from a reconnect path, whatever close events and
\* reconnect timers scheduled earlier arrive afterwards.
C5_NoReconnectAfterDisconnect == [][~isActive => ~WsReconnectStarted]_vars

\* disconnect() was called while a reconnect timer forgotten by
\* reconnectTimers was pending and a socket it closed awaits its close event
C5_Witness ==
    /\ ~isActive
    /\ \E t \in DOMAIN wsTimers : wsTimers[t].state = "pending"
    /\ \E s \in DOMAIN wsSockets : wsSockets[s].state = "closing"

\* a step in which EventStream armed a reconnect timer
EsReconnectScheduled ==
    /\ reconnectTimeout'.state = "pending"
    /\ reconnectTimeout.state # "pending" \/ reconnectAttempts' # reconnectAttempts

\* a step in which the timer callback of EventStream invoked connect()
EsReconnectStarted ==
    /\ Len(esWs') > Len(esWs)
    /\ esWs'[Len(esWs')].via = "reconnect"

\* C6: after EventStream.disconnect(), and until its owner calls connect()
\* again, no step schedules a reconnect timer and no step invokes connect()
\* from the timer, also when close events of earlier sockets are delivered.
C6_NoReconnectAfterDisconnect ==
    [][(~esWanted /\ ~esWanted') => ~EsReconnectScheduled /\ ~EsReconnectStarted]_vars

\* C7: a frame that is not valid JSON is dropped. The step that logs the
\* parse failure emits nothing to the subscribers, triggers no tree refresh
\* and no notification, and leaves sockets, timers and attempt counter as
\* they were, in WebSocketManager as in EventStream.
C7_MalformedDropped ==
    [][/\ (wsConsoleError' = "parse failed" /\ wsConsoleError # "parse failed")
            => UNCHANGED <<isActive, wsSockets, wsTimers, wsEmits, treeRefreshes,
                           notifications, wsTracking>>
       /\ (esConsoleError' = "parse failed" /\ esConsoleError # "parse failed")
            => UNCHANGED <<esWs, reconnectTimeout, reconnectAttempts, esWanted,
                           esEmits, esShown>>]_vars

\* a parse failure was logged for a frame of the per-pipeline channel, which
\* is still open and registered, and nothing has been emitted
C7_Witness ==
    /\ wsConsoleError = "parse failed"
    /\ wsEmits = 0 /\ treeRefreshes = 0 /\ notifications = 0
    /\ \E s \in DOMAIN wsSockets :
          /\ wsSockets[s].target = "p1"
          /\ wsSockets[s].state = "open"
          /\ wsSockets[s].registered

\* a channel for the pipeline exists: a socket that is connecting or open,
\* or a pending reconnect timer
ChannelExists(id) ==
    \/ \E s \in DOMAIN wsSockets :
          wsSockets[s].target = id /\ wsSockets[s].state \in {"connecting", "open"}
    \/ \E t \in DOMAIN wsTimers :
          wsTimers[t].target = id /\ wsTimers[t].state = "pending"

\* a step in which trackPipeline(id) created a socket
TrackCreated(id) ==
    /\ Len(wsSockets') > Len(wsSockets)
    /\ wsSockets'[Len(wsSockets')].via = "track"
    /\ wsSockets'[Len(wsSockets')].target = id

\* C11: trackPipeline(id) for an ID that is tracked (passed to trackPipeline
\* and not stopped since) and whose channel exists, whether connecting, open
\* or waiting for its reconnect timer, creates no socket.
C11_TrackIsNoOpWhenTracked ==
    [][\A id \in WsPipelines :
          (wsTracking[id] = "tracked" /\ ChannelExists(id)) => ~TrackCreated(id)]_vars

\* a reconnect for the pipeline is attempted in this step
ReconnectAttempted(id) ==
    /\ WsReconnectStarted
    /\ wsSockets'[Len(wsSockets')].target = id

\* a socket of the pipeline is open
ChannelOpen(id) ==
    \E s \in DOMAIN wsSockets :
        wsSockets[s].target = id /\ wsSockets[s].state = "open"

\* C12: while stopTrackingPipeline(id) was the last call for the ID, no
\* socket of the ID is open, no reconnect timer of the ID is pending and no
\* step attempts a reconnect for the ID.
C12_StoppedStaysStopped ==
    [][\A id \in WsPipelines :
          (wsTracking[id] = "stopped" /\ wsTracking'[id] = "stopped") =>
              /\ ~ChannelOpen(id)'
              /\ ~\E t \in DOMAIN wsTimers' :
                     wsTimers'[t].target = id /\ wsTimers'[t].state = "pending"
              /\ ~ReconnectAttempted(id)]_vars

\* the sockets a disconnect() of either class would call close() on
WsClosedByDisconnect(sockets) ==
    {i \in DOMAIN sockets : sockets[i].registered}
EsClosedByDisconnect(sockets) ==
    {i \in DOMAIN sockets : sockets[i].current}

\* a second disconnect() closes no socket, cancels no timer and changes
\* nothing, in WebSocketManager as in EventStream
DisconnectTwiceIsOnce ==
    LET sockets1 == CloseRegistered(wsSockets, WsTargets)
        timers1 == ClearRecorded(wsTimers, WsTargets)
        es1 == EsCloseCurrent(esWs)
    IN  /\ WsClosedByDisconnect(sockets1) = {}
        /\ \A t \in DOMAIN timers1 : ~timers1[t].recorded
        /\ CloseRegistered(sockets1, WsTargets) = sockets1
        /\ ClearRecorded(timers1, WsTargets) = timers1
        /\ EsClosedByDisconnect(es1) = {}
        /\ EsCloseCurrent(es1) = es1

\* C13: from every reachable state, disconnect() leaves no pending timer
\* and no registered socket, and a second disconnect() leaves exactly that
\* state, closing nothing and scheduling nothing.
C13_DisconnectIdempotent ==
    /\ DisconnectTwiceIsOnce
    /\ LET timers1 == ClearRecorded(wsTimers, WsTargets)
       IN  \A t \in DOMAIN timers1 : timers1[t].state # "pending"

\* a step in which a connection of EventStream failed: a socket closed, or
\* the constructor threw inside the connect() of the timer callback
EsFailure ==
    \/ Len(esWs') < Len(esWs)
    \/ /\ reconnectTimeout.state = "pending"
       /\ reconnectTimeout'.state = "fired"
       /\ esWs' = esWs

SocketOpened ==
    /\ Len(wsSockets') = Len(wsSockets)
    /\ \E s \in DOMAIN wsSockets :
          wsSockets[s].state = "connecting" /\ wsSockets'[s].state = "open"

\* C19: once the subscriptions of the extension are disposed, no step is a
\* refresh tick, no step starts a reconnect, no socket's open callback takes
\* effect, and no reconnect timer is left pending.
C19_DisposeCancelsAll ==
    [][extState = "disposed" =>
          /\ timerTicks' = timerTicks
          /\ refreshTicks' = refreshTicks
          /\ ~WsReconnectStarted
          /\ ~SocketOpened
          /\ \A t \in DOMAIN wsTimers : wsTimers[t].state # "pending"]_vars

\* C24: the reconnect that the EventStream schedules after the k-th failure
\* since the latest open event (k up to the cap of attempts) waits
\* 5000 ms * min(k, 5); the delay never exceeds 25000 ms, and an open event
\* resets the attempt counter to zero, so the next failure waits 5000 ms.
EsOpened ==
    \E s \in DOMAIN esWs :
        /\ esWs[s].state = "connecting"
        /\ Len(esWs') = Len(esWs)
        /\ esWs'[s].state = "open"
WsCloseStep == Len(wsSockets') < Len(wsSockets)
WsTimerArmed ==
    \E target \in WsTargets :
        Cardinality(PendingTimers(wsTimers', target))
            > Cardinality(PendingTimers(wsTimers, target))
WsReconnectRule ==
    [][WsCloseStep => (WsTimerArmed <=> (isActive /\ wsCloseCode' # 1000))]_vars

WsCreateFailed ==
    wsConsoleError' = "connect failed" /\ wsConsoleError # "connect failed"
EsCreateFailed ==
    esConsoleError' = "connect failed" /\ esConsoleError # "connect failed"

\* C26: a transport error is logged and is not fatal: no exception leaves a
\* socket handler, and a failed construction of a socket arms a reconnect
\* timer as an unexpected close does (in EventStream unless the cap of
\* attempts is reached), so the channel is not left dead.
C26_TransportErrorReconnects ==
    /\ [](~esUncaught)
    /\ [][/\ (WsCreateFailed /\ isActive) => WsTimerArmed
          /\ (EsCreateFailed /\ reconnectAttempts < MaxReconnectAttempts) =>
                  reconnectTimeout'.state = "pending"]_vars

C16_ListPipelinesTotal ==
    apiRet.op = "listPipelines" =>
        LET a == apiRet.answer
            r == apiRet.result
        IN  /\ ~r.threw
            /\ (~a.reached \/ a.status # 200) => r.value = <<>>
            /\ (a.reached /\ a.status = 200 /\ a.body.kind = "no field")
                  => r.value = <<>>
            /\ (a.reached /\ a.status = 200 /\ a.body.kind = "list") =>
                  /\ Len(r.value) = Len(a.body.pipelines)
                  /\ \A i \in DOMAIN r.value :
                        /\ r.value[i].id = a.body.pipelines[i].id
                        /\ r.value[i].appName = a.body.pipelines[i].appName
                        /\ r.value[i].status \in {"running", "pending"}
                        /\ r.value[i].startTime \in
                              {a.body.pipelines[i].startedAt,
                               a.body.pipelines[i].startTime}

\* the backend answered 401 and the call returned the empty list
C16_Witness ==
    /\ apiRet.op = "listPipelines"
    /\ apiRet.answer = Answer(401, NoBody)
    /\ apiRet.result = Returned(<<>>)

\* C17: getPipeline(id) returns null exactly when the backend answers 404;
\* it does not throw then, and a 200 answer carrying a pipeline object
\* yields a pipeline whose id is the payload's id.
C17_NotFoundIsNull ==
    apiRet.op = "getPipeline" =>
        LET a == apiRet.answer
            r == apiRet.result
        IN  /\ (~r.threw /\ r.value = None) <=> (a.reached /\ a.status = 404)
            /\ (a.reached /\ a.status = 200 /\ a.body.kind = "object") =>
                  /\ ~r.threw
                  /\ r.value # None
                  /\ r.value[1].id = a.body.pipeline.id

\* the backend answered 404 and the call returned null
C17_Witness ==
    /\ apiRet.op = "getPipeline"
    /\ apiRet.answer = Answer(404, NoBody)
    /\ apiRet.result = Returned(None)

(***************************************************************************)
(* Properties of the tree view                                             *)
(***************************************************************************)
\* C20: while a listPipelines call started by refresh() is outstanding, the
\* root shows only the loading placeholder, also when refresh() calls
\* overlap; once every call has settled, the root shows the pipeline items
\* of this.pipelines and never the placeholder.
C20_PlaceholderWhileFetching ==
    /\ tpFetches > 0 => getChildren(loading, treePipelines) = <<LoadingItem>>
    /\ tpFetches = 0 =>
          /\ Len(getChildren(loading, treePipelines)) = Len(treePipelines)
          /\ \A i \in DOMAIN treePipelines :
                getChildren(loading, treePipelines)[i].kind = "pipeline"

\* C21: for each pipeline ID, a request for the children of its node emits
\* pipelineExpanded exactly when the ID was not yet recorded as expanded,
\* refresh() and the settling of a fetch emit nothing, and so all the
\* requests together emit at most once per ID: at most one trackPipeline(id)
\* call of the listener comes from expanding the tree.
ExpansionEmitted(pipelineId) ==
    pipelineExpanded'[pipelineId].expansion # pipelineExpanded[pipelineId].expansion
C22_CollapsibleIffStages ==
    (~loading /\ tpFetches = 0) =>
        \A i \in DOMAIN treePipelines :
            (getChildren(loading, treePipelines)[i].collapsibleState = "Collapsed")
                <=> HasStages(tpListed[i])

(***************************************************************************)
(* Properties of the timeline                                              *)
(***************************************************************************)
\* C23: the timeline of a pipeline with a single completed stage that
\* started at a and completed at b, a < b, draws that stage's bar at left
\* 0% with width 100%, and the clamp to a minimum width leaves the width
\* as computed.
C23_SingleStageFillsTimeline ==
    (/\ timeline.op = "timeline"
     /\ Len(timeline.stages) = 1
     /\ timeline.stages[1].completedAt # None
     /\ timeline.stages[1].startedAt < timeline.stages[1].completedAt[1]) =>
        /\ Len(timeline.bars) = 1
        /\ JsEquals(timeline.bars[1].left, JsNumber(0))
        /\ JsEquals(timeline.bars[1].width, JsNumber(100))
        /\ timeline.bars[1].width = timeline.bars[1].rawWidth

\* a single stage that ran from 5 to 20 was drawn
C23_Witness ==
    /\ timeline.op = "timeline"
    /\ timeline.stages = <<[startedAt |-> 5, completedAt |-> Some(20)]>>
    /\ Len(timeline.bars) = 1

(***************************************************************************)
(* Properties of the ConfigMap watch                                       *)
(***************************************************************************)
\* C28: once the cleanup function has been called no watch is active, no
\* re-watch timer is left to fire and no step establishes a watch, whether
\* a watch ended with an error before or after the cleanup.
C28_WatchCancellable ==
    /\ [](k8sCleanup = "called" =>
             k8sRequest # "active" /\ k8sRewatches = 0 /\ k8sTimers = 0)
    /\ [][k8sCleanup = "called" => k8sRewatches' <= k8sRewatches]_vars

(***************************************************************************)
(* Properties of the mapping of API pipelines                              *)
(***************************************************************************)
\* the canonical pipeline m of the API pipeline p: the newer field name
\* first, the legacy name otherwise, the lower-cased status or 'pending',
\* the supplied duration or endTime - startTime
IsCanonical(p, m) ==
    /\ m.startTime = (IF Truthy(p.startedAt) THEN p.startedAt ELSE p.startTime)
    /\ m.endTime = (IF Truthy(p.completedAt) THEN p.completedAt ELSE p.endTime)
    /\ m.status = (IF p.status \in {None, Some("")} THEN "pending"
                   ELSE IF p.status = Some("RUNNING") THEN "running"
                   ELSE p.status[1])
    /\ m.duration = (IF p.duration # None THEN p.duration
                     ELSE IF m.startTime # None /\ m.endTime # None
                          THEN Some(m.endTime[1] - m.startTime[1])
                          ELSE None)

\* C31: listPipelines and getPipeline map every pipeline of a 200 answer to
\* the canonical shape: startTime from startedAt else startTime, endTime
\* from completedAt else endTime, the lower-cased status or 'pending', and
\* the supplied duration or else endTime - startTime when both are present.
C31_CanonicalMapping ==
    /\ (/\ apiRet.op = "getPipeline"
        /\ apiRet.answer.reached /\ apiRet.answer.status = 200
        /\ apiRet.answer.body.kind = "object") =>
           /\ ~apiRet.result.threw
           /\ apiRet.result.value # None
           /\ IsCanonical(apiRet.answer.body.pipeline, apiRet.result.value[1])
    /\ (/\ apiRet.op = "listPipelines"
        /\ apiRet.answer.reached /\ apiRet.answer.status = 200
        /\ apiRet.answer.body.kind = "list") =>
           /\ ~apiRet.result.threw
           /\ Len(apiRet.result.value) = Len(apiRet.answer.body.pipelines)
           /\ \A i \in DOMAIN apiRet.result.value :
                 IsCanonical(apiRet.answer.body.pipelines[i],
                             apiRet.result.value[i])

(***************************************************************************)
(* Properties of analyzePipeline                                           *)
(***************************************************************************)
\* the positions i whose gap to the event before exceeds two minutes
SlowGaps(events) ==
    {i \in 2..Len(events) : events[i].timestamp - events[i - 1].timestamp > 120000}

\* C32: analyzePipeline returns null for an unknown pipeline; otherwise it
\* flags every gap between consecutive events above two minutes as one
\* bottleneck, 'high' above five minutes and 'medium' otherwise, also when
\* events share an event type, and the score is 100 - 10 per such gap
\* - 20 per failed event.
C32_EveryGapFlagged ==
    ret.op = "analyze" =>
        /\ ~ret.known => ret.result = None
        /\ ret.result # None =>
              LET a == ret.result[1]
                  events == ret.events
                  failed == {i \in DOMAIN events : events[i].status = "failed"}
              IN  /\ Len(a.bottlenecks) = Cardinality(SlowGaps(events))
                  /\ \A i \in SlowGaps(events) :
                        \E k \in DOMAIN a.bottlenecks :
                           /\ a.bottlenecks[k].stage = events[i - 1].eventType
                           /\ a.bottlenecks[k].duration =
                                 events[i].timestamp - events[i - 1].timestamp
                           /\ a.bottlenecks[k].impact =
                                 (IF a.bottlenecks[k].duration > 300000
                                  THEN "high" ELSE "medium")
                  /\ a.performanceScore =
                        100 - 10 * Cardinality(SlowGaps(events))
                            - 20 * Cardinality(failed)

\* a network failure, a 401 or a 5xx answer
RecoverableFailure(answer) ==
    \/ ~answer.reached
    \/ answer.status = 401
    \/ answer.status \in 500..599

\* C33: for a network failure, a 401 or a 5xx answer, getPipeline,
\* getMetrics, listApplications and listPipelines return a result instead
\* of throwing, so the awaiting handlers never see a rejected promise.
C33_FailuresAbsorbed ==
    (/\ apiRet.op \in {"getPipeline", "getMetrics", "listApplications",
                       "listPipelines"}
     /\ RecoverableFailure(apiRet.answer)) => ~apiRet.result.threw

(***************************************************************************)
(* Properties of the pipelineEvent listener                                *)
(***************************************************************************)
\* showNotifications is true, the event has a status and an eventType, and
\* the level lets the status through
NotificationDue(event, show, level) ==
    /\ show
    /\ event.status # "undefined" /\ event.eventType # "undefined"
    /\ level # "none"
    /\ level = "failures" => event.status \in {"failed", "error"}

\* C34: on each pipelineEvent delivered by the WebSocketManager the tree is
\* refreshed, and a notification is shown exactly when showNotifications is
\* true, the event has a status and an eventType, and the level is 'all',
\* or 'failures' with status 'failed' or 'error'; level 'none' shows
\* nothing, and the error style is used exactly for 'failed' and 'error'.
C34_NotificationRule ==
    [][\A s \in DOMAIN wsSockets, data \in Frames, show \in BOOLEAN,
          level \in {"all", "failures", "none"} :
          (WsOnMessage(s, data, show, level) /\ data.wellFormed) =>
              /\ treeRefreshes' = treeRefreshes + 1
              /\ (notifications' = notifications + 1)
                    <=> NotificationDue(data.body, show, level)
              /\ (notifications' = notifications)
                    <=> ~NotificationDue(data.body, show, level)
              /\ (wsNotice' = "none") <=> ~NotificationDue(data.body, show, level)
              /\ (wsNotice' = "error")
                    <=> (/\ NotificationDue(data.body, show, level)
                         /\ data.body.status \in {"failed", "error"})
              /\ (wsNotice' = "information")
                    <=> (/\ NotificationDue(data.body, show, level)
                         /\ data.body.status \notin {"failed", "error"})]_vars

\* the listener refreshed the tree and showed an error message
C34_Witness ==
    /\ wsEmits = 1 /\ treeRefreshes = 1
    /\ notifications = 1 /\ wsNotice = "error"

C36_BarsVisible ==
    (timeline.op = "timeline" /\ Len(timeline.stages) >= 1) =>
        /\ Len(timeline.bars) = Len(timeline.stages)
        /\ \A i \in DOMAIN timeline.bars :
              LET left == timeline.bars[i].left
                  width == timeline.bars[i].width
              IN  /\ IsFinite(left) /\ left.den > 0
                  /\ left.num >= 0 /\ left.num <= 100 * left.den
                  /\ IsFinite(width) /\ width.den > 0
                  /\ width.num >= 2 * width.den

(***************************************************************************)
(* Properties of the socket registry of WebSocketManager                   *)
(***************************************************************************)
\* C37: once disconnect() has returned no socket is registered in
\* websockets or globalWebSocket and no socket is open, also after a
\* connection started before disconnect() completes its open.
C37_NoSocketAfterDisconnect ==
    ~isActive =>
        \A s \in DOMAIN wsSockets :
            ~wsSockets[s].registered /\ wsSockets[s].state # "open"

\* C39: at any time at most one reconnect timer is pending per target, and
\* every pending timer is the one held in reconnectTimers or
\* globalReconnectTimer, so that disconnect() and stopTrackingPipeline()
\* cancel every pending timer.
C39_OneRecordedTimerPerTarget ==
    /\ \A target \in WsTargets : Cardinality(PendingTimers(wsTimers, target)) <= 1
    /\ \A t \in DOMAIN wsTimers :
          wsTimers[t].state = "pending" => wsTimers[t].recorded

(***************************************************************************)
(* Properties of overlapping refreshes                                     *)
(***************************************************************************)
\* C38: when list fetches overlap, a fetch that settles after a fetch
\* started later than it has settled leaves the pipeline list as that
\* later fetch set it; the list shown in the end is the result of the
\* fetch started last.
C38_LatestFetchWins ==
    [][(tpPending' # tpPending /\ tpLastSettle' = "overtaken") =>
          UNCHANGED <<treePipelines, tpListed>>]_vars

====
